---- MODULE Spec2Model ----
(***************************************************************************)
(* A model of the pop3-migration plugin                                    *)
(* (src/src/plugins/pop3-migration/pop3-migration-plugin.c): the per-      *)
(* mailbox UIDL synchronisation (IMAP and POP3 record sets, the three      *)
(* matching phases, the header-hash reading, the UIDL cache) and the       *)
(* query surface that triggers it.                                         *)
(*                                                                         *)
(* Strings are modelled by integers that keep their strcmp order: a UIDL   *)
(* is a number in Uidls, the empty string is EmptyUidl and a NULL pointer   *)
(* is NULL.  A SHA1 digest is a number in Digests; the zeroed digest of a  *)
(* freshly appended record is ZeroDigest.                                  *)
(***************************************************************************)
EXTENDS Integers, Sequences, FiniteSets, TLC

(* ------------------------------ bounds --------------------------------- *)
\* most messages in the POP3 mailbox
MaxPop == 2
\* most messages in the IMAP mailbox
MaxImap == 2
\* distinct message sizes
MaxSize == 2
\* distinct header digests of the mailboxes that are matched by digest
MaxDig == 2
\* mailbox objects allocated on the one storage
MaxBoxes == 2

(* ----------------------------- constants ------------------------------- *)
\* a NULL char pointer (imap_msg_map.pop3_uidl before it is known)
NULL == -1
\* the empty string ""
EmptyUidl == 0
\* an imap_uid / pop3_seq of 0 means "not linked"
NoLink == 0
\* the all-zero hdr_sha1 of a record made by array_append_space()
ZeroDigest == 0
\* UOFF_T_MAX, what size/psize keep when the size is never fetched; it is
\* larger than every real message size
UOFF_T_MAX == MaxSize + 1
\* the digest of a header stream that was cut before its end-of-headers line;
\* it differs from the digest of every complete header
TruncDigest == MaxPop + MaxImap + MaxDig + 1

\* as many UIDL strings as the POP3 mailbox can hold messages
Uidls == 1..MaxPop
Sizes == 1..MaxSize
Digests == 1..MaxDig
EohKinds == {"hdr", "body", "none"}

\* the uid of the i-th message of the IMAP mailbox: strictly increasing, and
\* never equal to the message's sequence number
UidOf(i) == 2 * i + 1

Min(a, b) == IF a < b THEN a ELSE b
Or(a, b) == IF a THEN TRUE ELSE b

(* ------------------------------ state ---------------------------------- *)
VARIABLES
    set,            \* struct pop3_migration_settings
    popList,        \* the POP3 mailbox: messages in listing order
    imapList,       \* the IMAP mailbox: messages in uid order
    fault,          \* the collaborator call that fails, if any
    nBoxes,         \* mailbox objects that get allocated on the storage
    uidlCache,      \* cache field MAIL_CACHE_POP3_UIDL of the IMAP mailbox, by uid
    imapHdrCache,   \* cache field "pop3-migration.hdr" of the IMAP mailbox, by uid
    popHdrCache,    \* cache field "pop3-migration.hdr" of the POP3 mailbox, by seq
    pop3_created,   \* array_is_created(&mstorage->pop3_uidl_map)
    pop3_uidl_map,  \* mstorage->pop3_uidl_map
    pop3_all_hdr_sha1_set, \* mstorage->pop3_all_hdr_sha1_set
    mbox,           \* struct pop3_migration_mailbox of every mailbox object
    hdr_stream,     \* the header streams that pop3_migration_get_hdr_sha1() filters
    pc,             \* where the running pop3_migration_uidl_sync() stands
    cur,            \* the mailbox object being synced
    ret,            \* the return value the running sync has so far
    reply,          \* what the last call returned to its caller
    io,             \* the I/O the current session has issued, in order
    log,            \* the warnings and errors the current session has logged
    imapReads,      \* per mailbox object: calls of imap_map_read()
    matchRuns,      \* per mailbox object: runs of the matching phases
    panic           \* an i_assert() has failed

envVars == <<set, popList, imapList, fault, nBoxes>>
mailVars == <<uidlCache, imapHdrCache, popHdrCache, pop3_created, pop3_uidl_map,
              pop3_all_hdr_sha1_set, mbox, pc, cur, ret, reply, io, log,
              imapReads, matchRuns, panic>>
cacheVars == <<uidlCache, imapHdrCache, popHdrCache>>
storageVars == <<pop3_created, pop3_uidl_map, pop3_all_hdr_sha1_set>>
ctlVars == <<pc, cur, ret, reply>>
obsVars == <<io, log, imapReads, matchRuns, panic>>
vars == <<envVars, cacheVars, storageVars, mbox, ctlVars, obsVars, hdr_stream>>

Boxes == 1..nBoxes
PopSeqs == 1..Len(popList)
ImapSeqs == 1..Len(imapList)
Uids == {UidOf(i) : i \in ImapSeqs}

(* ----------------------------- records --------------------------------- *)
\* struct pop3_uidl_map as array_append_space() and pop3_map_read() fill it
PopRec(seq, uidl, size) ==
    [pop3_seq |-> seq, imap_uid |-> NoLink, pop3_uidl |-> uidl, size |-> size,
     hdr_sha1 |-> ZeroDigest, hdr_sha1_set |-> FALSE]

\* struct imap_msg_map as array_append_space() and imap_map_read() fill it
ImapRec(uid, psize, uidl) ==
    [uid |-> uid, pop3_seq |-> NoLink, psize |-> psize, pop3_uidl |-> uidl,
     hdr_sha1 |-> ZeroDigest, hdr_sha1_set |-> FALSE]

\* struct pop3_migration_mailbox after p_new()
NewMbox ==
    [created |-> FALSE, imap_msg_map |-> <<>>, first_unfound_idx |-> 0,
     uidl_synced |-> FALSE, uidl_sync_failed |-> FALSE]

NoFault == [kind |-> "none", side |-> "none", at |-> 0]
Fails(kind, side, at) == fault.kind = kind /\ fault.side = side /\ fault.at = at

NoReply ==
    [op |-> "none", box |-> 0, field |-> "none", uid |-> 0,
     result |-> "none", value |-> NULL, error |-> "none"]

IoEv(side, op, at) == [side |-> side, op |-> op, at |-> at]

(* ------------------------- comparison functions ------------------------ *)
Cmp(a, b) == IF a < b THEN -1 ELSE IF a > b THEN 1 ELSE 0

imap_msg_map_uid_cmp(map1, map2) == Cmp(map1.uid, map2.uid)
pop3_uidl_map_pop3_seq_cmp(map1, map2) == Cmp(map1.pop3_seq, map2.pop3_seq)
\* strcmp() of two non-NULL strings
strcmp(s1, s2) == Cmp(s1, s2)
pop3_uidl_map_uidl_cmp(map1, map2) == strcmp(map1.pop3_uidl, map2.pop3_uidl)
\* null_strcmp(): an absent UIDL sorts after every present one
null_strcmp(s1, s2) ==
    IF s1 = NULL THEN (IF s2 = NULL THEN 0 ELSE 1)
    ELSE IF s2 = NULL THEN -1
    ELSE strcmp(s1, s2)
imap_msg_map_uidl_cmp(map1, map2) == null_strcmp(map1.pop3_uidl, map2.pop3_uidl)
\* memcmp() of two hdr_sha1 arrays
memcmp(sha1, sha2) == Cmp(sha1, sha2)
pop3_uidl_map_hdr_cmp(map1, map2) == memcmp(map1.hdr_sha1, map2.hdr_sha1)
imap_msg_map_hdr_cmp(map1, map2) == memcmp(map1.hdr_sha1, map2.hdr_sha1)

\* array_sort() is qsort(): any order of the elements that the comparison
\* function accepts; elements that compare equal may come out in any order
Perms(n) == {p \in [1..n -> 1..n] : \A i, j \in 1..n : i # j => p[i] # p[j]}
\* the comparison function that array_sort() is called with, by its name
CallCmp(cmp, map1, map2) ==
    CASE cmp = "imap_msg_map_uid_cmp" -> imap_msg_map_uid_cmp(map1, map2)
      [] cmp = "pop3_uidl_map_pop3_seq_cmp" -> pop3_uidl_map_pop3_seq_cmp(map1, map2)
      [] cmp = "pop3_uidl_map_uidl_cmp" -> pop3_uidl_map_uidl_cmp(map1, map2)
      [] cmp = "imap_msg_map_uidl_cmp" -> imap_msg_map_uidl_cmp(map1, map2)
      [] cmp = "pop3_uidl_map_hdr_cmp" -> pop3_uidl_map_hdr_cmp(map1, map2)
      [] cmp = "imap_msg_map_hdr_cmp" -> imap_msg_map_hdr_cmp(map1, map2)
array_sort(arr, cmp) ==
    {[i \in 1..Len(arr) |-> arr[p[i]]] :
        p \in {q \in Perms(Len(arr)) :
                 \A i \in 1..(Len(arr) - 1) :
                    CallCmp(cmp, arr[q[i]], arr[q[i + 1]]) <= 0}}

(* --------------------------- imap_map_read() --------------------------- *)
\* the number of IMAP messages the search loop appends before it ends: all of
\* them, or those before the one whose mail_get_physical_size() fails
ImapEnumCount ==
    IF ~set.skip_size_check /\ fault.kind = "enum_size" /\ fault.side = "imap"
       /\ fault.at \in ImapSeqs
    THEN fault.at - 1
    ELSE Len(imapList)

\* mail_cache_lookup_field() of the UIDL field, then p_strdup_empty(): NULL
\* when UIDL caching is skipped or the field is absent
ImapCachedUidl_IgnoreSkip(uid) == uidlCache[uid]
ImapCachedUidl(uid) == IF set.skip_uidl_cache THEN NULL ELSE uidlCache[uid]

\* the imap_msg_map that imap_map_read() builds
ImapEnumMap ==
    [i \in 1..ImapEnumCount |->
        ImapRec(imapList[i].uid,
                IF set.skip_size_check THEN UOFF_T_MAX ELSE imapList[i].size,
                ImapCachedUidl(imapList[i].uid))]

\* the return value of imap_map_read()
ImapEnumRet ==
    IF ImapEnumCount < Len(imapList) \/ Fails("enum_deinit", "imap", 0)
    THEN -1 ELSE 0

(* --------------------------- pop3_map_read() --------------------------- *)
\* the POP3 message at which the search loop breaks, or Len(popList) + 1
PopEnumBreak ==
    IF fault.side = "pop3" /\ fault.at \in PopSeqs
       /\ (fault.kind = "enum_uidl"
           \/ (fault.kind = "enum_size" /\ ~set.skip_size_check))
    THEN fault.at
    ELSE Len(popList) + 1

\* the records the loop appends for the messages first .. PopEnumBreak - 1:
\* a message with an empty UIDL is skipped with a warning
RECURSIVE PopEnumFrom_KeepEmpty(_)
PopEnumFrom_KeepEmpty(seq) ==
    IF seq >= PopEnumBreak THEN <<>>
    ELSE <<PopRec(seq, popList[seq].uidl,
                  IF set.skip_size_check THEN UOFF_T_MAX ELSE popList[seq].size)>>
         \o PopEnumFrom_KeepEmpty(seq + 1)
RECURSIVE PopEnumFrom(_)
PopEnumFrom(seq) ==
    IF seq >= PopEnumBreak THEN <<>>
    ELSE IF popList[seq].uidl = EmptyUidl THEN PopEnumFrom(seq + 1)
    ELSE <<PopRec(seq, popList[seq].uidl,
                  IF set.skip_size_check THEN UOFF_T_MAX ELSE popList[seq].size)>>
         \o PopEnumFrom(seq + 1)

\* the pop3_uidl_map, the return value and the warnings of a pop3_map_read()
\* that finds the array not created yet
PopEnumMap == IF Fails("sync", "pop3", 0) THEN <<>> ELSE PopEnumFrom(1)
PopEnumRet ==
    IF Fails("sync", "pop3", 0) \/ PopEnumBreak <= Len(popList)
       \/ Fails("enum_deinit", "pop3", 0)
    THEN -1 ELSE 0
PopEnumWarns ==
    IF ~Fails("sync", "pop3", 0)
       /\ \E seq \in PopSeqs : seq < PopEnumBreak /\ popList[seq].uidl = EmptyUidl
    THEN {"warn_empty_uidl"} ELSE {}
PopEnumIo ==
    IF Fails("sync", "pop3", 0) THEN <<IoEv("pop3", "sync", 0)>>
    ELSE <<IoEv("pop3", "sync", 0), IoEv("pop3", "enum", 0)>>

\* "already read these, just reset the imap_uids"
PopResetUids_Keep(map) == map
PopResetUids(map) == [i \in 1..Len(map) |-> [map[i] EXCEPT !.imap_uid = NoLink]]

(* ------------------ get_hdr_sha1(), map_read_hdr_hashes() --------------- *)
\* the mailbox a header-hash search runs on, and the key of a message's cache
\* fields in it
Msgs(side) == IF side = "pop3" THEN popList ELSE imapList
CacheKey(side, seq) == IF side = "pop3" THEN seq ELSE imapList[seq].uid

\* get_hdr_sha1() on message seq of a mailbox:
\*   ret      its return value (1 hashed, 0 treated as expunged, -1 failed)
\*   sha1     what it leaves in sha1_r, NULL when sha1_r is not written
\*   cached   the digest it adds to the cache field, NULL when none
\*   io, log  the fetches it issues and the lines it logs
HdrResult(r, sha1, cached, ios, logs) ==
    [ret |-> r, sha1 |-> sha1, cached |-> cached, io |-> ios, log |-> logs]

get_hdr_sha1_BodyAfterDigest(side, seq) ==
    LET m == Msgs(side)[seq]
        hdrIo == <<IoEv(side, "hdr", seq)>>
        bodyIo == <<IoEv(side, "hdr", seq), IoEv(side, "body", seq)>>
    IN  IF m.eoh = "hdr" THEN HdrResult(1, m.dig, m.dig, hdrIo, {})
        ELSE IF Fails("body_stream", side, seq) \/ Fails("body_read", side, seq)
          THEN HdrResult(-1, TruncDigest, TruncDigest, bodyIo, {"err_body_stream"})
        ELSE IF Fails("body_expunged", side, seq)
          THEN HdrResult(1, TruncDigest, TruncDigest, bodyIo, {"err_body_stream"})
        ELSE HdrResult(1, m.dig, m.dig, bodyIo,
                       IF m.eoh = "none" THEN {"warn_truncated"} ELSE {})

get_hdr_sha1_FailTruncated(side, seq) ==
    LET m == Msgs(side)[seq]
        hdrIo == <<IoEv(side, "hdr", seq)>>
        bodyIo == <<IoEv(side, "hdr", seq), IoEv(side, "body", seq)>>
    IN  IF m.eoh = "hdr" THEN HdrResult(1, m.dig, m.dig, hdrIo, {})
        ELSE IF m.eoh = "none"
          THEN HdrResult(-1, m.dig, NULL, bodyIo, {"err_body_read"})
        ELSE HdrResult(1, m.dig, m.dig, bodyIo, {})

get_hdr_sha1_CacheFirstPass(side, seq) ==
    LET m == Msgs(side)[seq]
    IN  HdrResult(1, m.dig, m.dig, <<IoEv(side, "hdr", seq)>>, {})

get_hdr_sha1(side, seq) ==
    LET m == Msgs(side)[seq]
        hdrIo == <<IoEv(side, "hdr", seq)>>
        bodyIo == <<IoEv(side, "hdr", seq), IoEv(side, "body", seq)>>
    IN  IF Fails("hdr_stream", side, seq)
          THEN HdrResult(-1, NULL, NULL, hdrIo, {"err_hdr_stream"})
        ELSE IF Fails("hdr_expunged", side, seq)
          THEN HdrResult(0, NULL, NULL, hdrIo, {"err_hdr_stream"})
        ELSE IF Fails("hdr_read", side, seq)
          THEN HdrResult(-1, NULL, NULL, hdrIo, {"err_hdr_read"})
        ELSE IF m.eoh = "hdr"
          THEN HdrResult(1, m.dig, m.dig, hdrIo, {})
        \* the end-of-headers line is missing: fall back to the full body
        ELSE IF Fails("body_stream", side, seq)
          THEN HdrResult(-1, TruncDigest, NULL, bodyIo, {"err_body_stream"})
        ELSE IF Fails("body_expunged", side, seq)
          THEN HdrResult(0, TruncDigest, NULL, bodyIo, {"err_body_stream"})
        ELSE IF Fails("body_read", side, seq)
          THEN HdrResult(-1, TruncDigest, NULL, bodyIo, {"err_body_read"})
        ELSE HdrResult(1, m.dig, m.dig, bodyIo,
                       IF m.eoh = "none" THEN {"warn_truncated"} ELSE {})

\* get_cached_hdr_sha1() for every message of the search: the record at index
\* mail->seq - 1 takes the cached digest
ReadCachedHashes(side, map, cache, seq1) ==
    [i \in 1..Len(map) |->
        IF i >= seq1 /\ i <= Len(Msgs(side)) /\ cache[CacheKey(side, i)] # NULL
        THEN [map[i] EXCEPT !.hdr_sha1 = cache[CacheKey(side, i)],
                            !.hdr_sha1_set = TRUE]
        ELSE map[i]]

\* the second search loop of map_read_hdr_hashes(), from message seq on; st is
\* [map, cache, ret, io, log]
RECURSIVE HashLoop(_, _, _)
HashLoop(side, seq, st) ==
    IF seq > Len(st.map) \/ seq > Len(Msgs(side)) THEN st
    ELSE IF st.map[seq].hdr_sha1_set THEN HashLoop(side, seq + 1, st)
    ELSE LET r == get_hdr_sha1(side, seq)
             rec == [st.map[seq] EXCEPT
                        !.hdr_sha1 = IF r.sha1 = NULL THEN @ ELSE r.sha1,
                        !.hdr_sha1_set = IF r.ret > 0 THEN TRUE ELSE @]
             st2 == [map |-> [st.map EXCEPT ![seq] = rec],
                     cache |-> IF r.cached = NULL THEN st.cache
                               ELSE [st.cache EXCEPT ![CacheKey(side, seq)] = r.cached],
                     ret |-> IF r.ret < 0 THEN -1 ELSE st.ret,
                     io |-> st.io \o r.io,
                     log |-> st.log \cup r.log]
         IN  IF r.ret < 0 THEN st2 ELSE HashLoop(side, seq + 1, st2)

\* map_read_hdr_hashes(box, msg_map, seq1) with the box's digest cache field:
\* [map, cache, ret, io, log]
map_read_hdr_hashes_IgnoreDeinit(side, map, cache, seq1) ==
    LET st0 == [map |-> ReadCachedHashes(side, map, cache, seq1),
                cache |-> cache, ret |-> 0, io |-> <<>>,
                log |-> IF Fails("cached_deinit", side, 0)
                        THEN {"warn_cached_search"} ELSE {}]
        st1 == HashLoop(side, seq1, st0)
    IN  IF Fails("hash_deinit", side, 0)
        THEN [st1 EXCEPT !.log = @ \cup {"err_hash_search"}]
        ELSE st1
map_read_hdr_hashes(side, map, cache, seq1) ==
    LET st0 == [map |-> ReadCachedHashes(side, map, cache, seq1),
                cache |-> cache, ret |-> 0, io |-> <<>>,
                log |-> IF Fails("cached_deinit", side, 0)
                        THEN {"warn_cached_search"} ELSE {}]
        st1 == HashLoop(side, seq1, st0)
    IN  IF Fails("hash_deinit", side, 0)
        THEN [st1 EXCEPT !.ret = -1, !.log = @ \cup {"err_hash_search"}]
        ELSE st1

(* ----------------------- pop3_uidl_assign_cached() ---------------------- *)
\* the inner for loop: from pop3_idx on, the first POP3 record whose UIDL is
\* not greater than the IMAP record's (strcmp() >= 0), Len(pop) + 1 if none
RECURSIVE CachedSeek(_, _, _)
CachedSeek(uidl, pop, pop3_idx) ==
    IF pop3_idx > Len(pop) THEN pop3_idx
    ELSE IF strcmp(uidl, pop[pop3_idx].pop3_uidl) >= 0 THEN pop3_idx
    ELSE CachedSeek(uidl, pop, pop3_idx + 1)

\* the outer for loop over the IMAP records, both arrays sorted by UIDL
RECURSIVE CachedLoop(_, _, _, _)
CachedLoop(imap_idx, pop3_idx, pop, imap) ==
    IF imap_idx > Len(imap) THEN [pop |-> pop, imap |-> imap]
    ELSE IF imap[imap_idx].pop3_uidl = NULL
      THEN CachedLoop(imap_idx + 1, pop3_idx, pop, imap)
    ELSE LET idx == CachedSeek(imap[imap_idx].pop3_uidl, pop, pop3_idx)
         IN  IF idx <= Len(pop)
                /\ strcmp(imap[imap_idx].pop3_uidl, pop[idx].pop3_uidl) = 0
             THEN CachedLoop(imap_idx + 1, idx,
                     [pop EXCEPT ![idx].imap_uid = imap[imap_idx].uid],
                     [imap EXCEPT ![imap_idx].pop3_seq = pop[idx].pop3_seq])
             ELSE CachedLoop(imap_idx + 1, idx, pop, imap)

\* the number of strcmp() calls the two nested for loops make from
\* (imap_idx, pop3_idx) on
RECURSIVE CachedCompares(_, _, _, _)
CachedCompares(imap_idx, pop3_idx, pop, imap) ==
    IF imap_idx > Len(imap) THEN 0
    ELSE IF imap[imap_idx].pop3_uidl = NULL
      THEN CachedCompares(imap_idx + 1, pop3_idx, pop, imap)
    ELSE LET idx == CachedSeek(imap[imap_idx].pop3_uidl, pop, pop3_idx)
             calls == IF idx <= Len(pop) THEN idx - pop3_idx + 1 ELSE idx - pop3_idx
         IN  calls + CachedCompares(imap_idx + 1, idx, pop, imap)

\* pop3_uidl_assign_cached(): every [pop, imap] it can leave behind
pop3_uidl_assign_cached(pop, imap) ==
    IF set.skip_uidl_cache THEN {[pop |-> pop, imap |-> imap]}
    ELSE {CachedLoop(1, 1, p, m) :
            p \in array_sort(pop, "pop3_uidl_map_uidl_cmp"),
            m \in array_sort(imap, "imap_msg_map_uidl_cmp")}

(* ----------------------- pop3_uidl_assign_by_size() --------------------- *)
\* the for loop from C index i on: [pop, imap, i] when it ends
RECURSIVE BySizeLoop_OffByOne(_, _, _)
BySizeLoop_OffByOne(i, pop, imap) ==
    LET count == Min(Len(pop), Len(imap))
        k == i + 1
        stop == [pop |-> pop, imap |-> imap, i |-> i]
    IN  IF ~(i + 1 < count) THEN stop
        ELSE IF imap[k].pop3_uidl # NULL
          THEN IF strcmp(pop[k].pop3_uidl, imap[k].pop3_uidl) = 0
               THEN BySizeLoop_OffByOne(i + 1, pop, imap)
               ELSE stop
        ELSE IF pop[k].size # imap[k].psize \/ set.skip_size_check THEN stop
        ELSE IF i + 1 < count /\ pop[k].size = pop[k + 1].size THEN stop
        ELSE BySizeLoop_OffByOne(i + 1,
                [pop EXCEPT ![k].imap_uid = imap[k].uid],
                [imap EXCEPT ![k].pop3_uidl = pop[k].pop3_uidl,
                             ![k].pop3_seq = pop[k].pop3_seq])
RECURSIVE BySizeLoop(_, _, _)
BySizeLoop(i, pop, imap) ==
    LET count == Min(Len(pop), Len(imap))
        k == i + 1
        stop == [pop |-> pop, imap |-> imap, i |-> i]
    IN  IF ~(i < count) THEN stop
        ELSE IF imap[k].pop3_uidl # NULL
          THEN IF strcmp(pop[k].pop3_uidl, imap[k].pop3_uidl) = 0
               THEN BySizeLoop(i + 1, pop, imap)
               ELSE stop
        ELSE IF pop[k].size # imap[k].psize \/ set.skip_size_check THEN stop
        ELSE IF i + 1 < count /\ pop[k].size = pop[k + 1].size THEN stop
        ELSE BySizeLoop(i + 1,
                [pop EXCEPT ![k].imap_uid = imap[k].uid],
                [imap EXCEPT ![k].pop3_uidl = pop[k].pop3_uidl,
                             ![k].pop3_seq = pop[k].pop3_seq])

\* pop3_uidl_assign_by_size(): [pop, imap, i, all], i what first_unfound_idx
\* becomes and all its return value
pop3_uidl_assign_by_size(pop, imap) ==
    LET r == BySizeLoop(0, pop, imap)
    IN  [pop |-> r.pop, imap |-> r.imap, i |-> r.i,
         all |-> (r.i = Min(Len(pop), Len(imap)) /\ Len(imap) = Len(pop))]

(* --------------------- pop3_uidl_assign_by_hdr_hash() ------------------- *)
\* the while loop over both arrays, sorted by digest
RECURSIVE HdrHashLoop_AdvanceImap(_, _, _, _)
HdrHashLoop_AdvanceImap(pop3_idx, imap_idx, pop, imap) ==
    IF ~(pop3_idx <= Len(pop) /\ imap_idx <= Len(imap))
      THEN [pop |-> pop, imap |-> imap]
    ELSE IF ~pop[pop3_idx].hdr_sha1_set \/ pop[pop3_idx].imap_uid # NoLink
      THEN HdrHashLoop_AdvanceImap(pop3_idx + 1, imap_idx, pop, imap)
    ELSE IF ~imap[imap_idx].hdr_sha1_set \/ imap[imap_idx].pop3_uidl # NULL
      THEN HdrHashLoop_AdvanceImap(pop3_idx, imap_idx + 1, pop, imap)
    ELSE LET c == memcmp(pop[pop3_idx].hdr_sha1, imap[imap_idx].hdr_sha1)
         IN  IF c < 0 THEN HdrHashLoop_AdvanceImap(pop3_idx, imap_idx + 1, pop, imap)
             ELSE IF c > 0 THEN HdrHashLoop_AdvanceImap(pop3_idx + 1, imap_idx, pop, imap)
             ELSE HdrHashLoop_AdvanceImap(pop3_idx, imap_idx,
                     [pop EXCEPT ![pop3_idx].imap_uid = imap[imap_idx].uid],
                     [imap EXCEPT ![imap_idx].pop3_uidl = pop[pop3_idx].pop3_uidl,
                                  ![imap_idx].pop3_seq = pop[pop3_idx].pop3_seq])
RECURSIVE HdrHashLoop(_, _, _, _)
HdrHashLoop(pop3_idx, imap_idx, pop, imap) ==
    IF ~(pop3_idx <= Len(pop) /\ imap_idx <= Len(imap))
      THEN [pop |-> pop, imap |-> imap]
    ELSE IF ~pop[pop3_idx].hdr_sha1_set \/ pop[pop3_idx].imap_uid # NoLink
      THEN HdrHashLoop(pop3_idx + 1, imap_idx, pop, imap)
    ELSE IF ~imap[imap_idx].hdr_sha1_set \/ imap[imap_idx].pop3_uidl # NULL
      THEN HdrHashLoop(pop3_idx, imap_idx + 1, pop, imap)
    ELSE LET c == memcmp(pop[pop3_idx].hdr_sha1, imap[imap_idx].hdr_sha1)
         IN  IF c < 0 THEN HdrHashLoop(pop3_idx + 1, imap_idx, pop, imap)
             ELSE IF c > 0 THEN HdrHashLoop(pop3_idx, imap_idx + 1, pop, imap)
             ELSE HdrHashLoop(pop3_idx, imap_idx,
                     [pop EXCEPT ![pop3_idx].imap_uid = imap[imap_idx].uid],
                     [imap EXCEPT ![imap_idx].pop3_uidl = pop[pop3_idx].pop3_uidl,
                                  ![imap_idx].pop3_seq = pop[pop3_idx].pop3_seq])

\* One iteration of that while loop, on st = [pop3_idx, imap_idx, pop, imap, n],
\* n the number of iterations so far
HdrHashStep_IgnoreLinks(st) ==
    LET pop == st.pop
        imap == st.imap
        next == [st EXCEPT !.n = @ + 1]
    IN  IF ~pop[st.pop3_idx].hdr_sha1_set
          THEN [next EXCEPT !.pop3_idx = @ + 1]
        ELSE IF ~imap[st.imap_idx].hdr_sha1_set
          THEN [next EXCEPT !.imap_idx = @ + 1]
        ELSE LET c == memcmp(pop[st.pop3_idx].hdr_sha1, imap[st.imap_idx].hdr_sha1)
             IN  IF c < 0 THEN [next EXCEPT !.pop3_idx = @ + 1]
                 ELSE IF c > 0 THEN [next EXCEPT !.imap_idx = @ + 1]
                 ELSE [next EXCEPT
                         !.pop[st.pop3_idx].imap_uid = imap[st.imap_idx].uid,
                         !.imap[st.imap_idx].pop3_uidl = pop[st.pop3_idx].pop3_uidl,
                         !.imap[st.imap_idx].pop3_seq = pop[st.pop3_idx].pop3_seq]
HdrHashStep(st) ==
    LET pop == st.pop
        imap == st.imap
        next == [st EXCEPT !.n = @ + 1]
    IN  IF ~pop[st.pop3_idx].hdr_sha1_set \/ pop[st.pop3_idx].imap_uid # NoLink
          THEN [next EXCEPT !.pop3_idx = @ + 1]
        ELSE IF ~imap[st.imap_idx].hdr_sha1_set \/ imap[st.imap_idx].pop3_uidl # NULL
          THEN [next EXCEPT !.imap_idx = @ + 1]
        ELSE LET c == memcmp(pop[st.pop3_idx].hdr_sha1, imap[st.imap_idx].hdr_sha1)
             IN  IF c < 0 THEN [next EXCEPT !.pop3_idx = @ + 1]
                 ELSE IF c > 0 THEN [next EXCEPT !.imap_idx = @ + 1]
                 ELSE [next EXCEPT
                         !.pop[st.pop3_idx].imap_uid = imap[st.imap_idx].uid,
                         !.imap[st.imap_idx].pop3_uidl = pop[st.pop3_idx].pop3_uidl,
                         !.imap[st.imap_idx].pop3_seq = pop[st.pop3_idx].pop3_seq]
\* the loop run from st until its condition fails, given up after max
\* iterations
RECURSIVE HdrHashRun(_, _)
HdrHashRun(st, max) ==
    IF ~(st.pop3_idx <= Len(st.pop) /\ st.imap_idx <= Len(st.imap)) THEN st
    ELSE IF st.n >= max THEN [st EXCEPT !.n = max + 1]
    ELSE HdrHashRun(HdrHashStep(st), max)

\* the POP3 records the second loop counts as missing: not matched, digest set
MissingUids(pop) ==
    {i \in 1..Len(pop) : pop[i].imap_uid = NoLink /\ pop[i].hdr_sha1_set}

\* "all IMAP messages were found"
AllImapMailsFound(pop, imap) == Len(imap) + Cardinality(MissingUids(pop)) = Len(pop)

\* what the policy block decides for the arrays the merge left: the return
\* value and the lines logged
MissingVerdict_ExtraTolerated(pop, imap) ==
    IF Cardinality(MissingUids(pop)) > 0 /\ ~set.all_mailboxes
    THEN IF AllImapMailsFound(pop, imap)
           THEN [ret |-> 0, log |-> {"warn_missing"}]
         ELSE IF ~set.ignore_missing_uidls
           THEN [ret |-> -1, log |-> {"err_missing"}]
         ELSE [ret |-> 0, log |-> {"warn_missing"}]
    ELSE [ret |-> 0, log |-> {}]
MissingVerdict_IgnoreAllMailboxes(pop, imap) ==
    IF Cardinality(MissingUids(pop)) > 0
    THEN IF AllImapMailsFound(pop, imap) /\ set.ignore_extra_uidls
           THEN [ret |-> 0, log |-> {"warn_missing"}]
         ELSE IF ~set.ignore_missing_uidls
           THEN [ret |-> -1, log |-> {"err_missing"}]
         ELSE [ret |-> 0, log |-> {"warn_missing"}]
    ELSE [ret |-> 0, log |-> {}]
MissingVerdict_NoIgnoreMissing(pop, imap) ==
    IF Cardinality(MissingUids(pop)) > 0 /\ ~set.all_mailboxes
    THEN IF AllImapMailsFound(pop, imap) /\ set.ignore_extra_uidls
           THEN [ret |-> 0, log |-> {"warn_missing"}]
         ELSE [ret |-> -1, log |-> {"err_missing"}]
    ELSE [ret |-> 0, log |-> {}]
MissingVerdict(pop, imap) ==
    IF Cardinality(MissingUids(pop)) > 0 /\ ~set.all_mailboxes
    THEN IF AllImapMailsFound(pop, imap) /\ set.ignore_extra_uidls
           THEN [ret |-> 0, log |-> {"warn_missing"}]
         ELSE IF ~set.ignore_missing_uidls
           THEN [ret |-> -1, log |-> {"err_missing"}]
         ELSE [ret |-> 0, log |-> {"warn_missing"}]
    ELSE [ret |-> 0, log |-> {}]

\* the matching part of pop3_uidl_assign_by_hdr_hash(), after both sides'
\* digests were read: every [pop, imap, ret, log] it can leave behind.  The
\* arrays go back to pop3_seq / uid order only when it returns 0.
HdrHashMatch_Unsorted(pop, imap) ==
    {LET r == HdrHashLoop(1, 1, pop, imap)
         v == MissingVerdict(r.pop, r.imap)
     IN  [pop |-> r.pop, imap |-> r.imap, ret |-> v.ret, log |-> v.log]}
HdrHashMatch(pop, imap) ==
    {LET v == MissingVerdict(r.pop, r.imap)
     IN  [pop |-> r.pop, imap |-> r.imap, ret |-> v.ret, log |-> v.log] :
        r \in {HdrHashLoop(1, 1, p, m) :
                 p \in array_sort(pop, "pop3_uidl_map_hdr_cmp"),
                 m \in array_sort(imap, "imap_msg_map_hdr_cmp")}}

(* ----------------------- imap_uidls_add_to_cache() ---------------------- *)
\* mail_cache_field_can_add(): the UIDL field of the message is still empty
mail_cache_field_can_add(cache, uid) == cache[uid] = NULL

\* the UIDL cache field after imap_uidls_add_to_cache() went through the array
RECURSIVE AddToCacheLoop(_, _, _)
AddToCacheLoop(i, imap, cache) ==
    IF i > Len(imap) THEN cache
    ELSE IF imap[i].pop3_uidl = NULL THEN AddToCacheLoop(i + 1, imap, cache)
    ELSE IF mail_cache_field_can_add(cache, imap[i].uid)
      THEN AddToCacheLoop(i + 1, imap, [cache EXCEPT ![imap[i].uid] = imap[i].pop3_uidl])
    ELSE AddToCacheLoop(i + 1, imap, cache)

imap_uidls_add_to_cache(imap, cache) == AddToCacheLoop(1, imap, cache)

(* ---------------------------- array_bsearch() --------------------------- *)
\* bsearch() over C indexes lo .. hi - 1: the index (from 1) of a record whose
\* uid compares equal to the key, 0 when the search ends without one
RECURSIVE BsearchLoop(_, _, _, _)
BsearchLoop(arr, uid, lo, hi) ==
    IF ~(lo < hi) THEN 0
    ELSE LET mid == (lo + hi) \div 2
             c == Cmp(uid, arr[mid + 1].uid)
         IN  IF c < 0 THEN BsearchLoop(arr, uid, lo, mid)
             ELSE IF c > 0 THEN BsearchLoop(arr, uid, mid + 1, hi)
             ELSE mid + 1

array_bsearch(arr, uid) == BsearchLoop(arr, uid, 0, Len(arr))

(* ------------------------------ actions -------------------------------- *)
\* pop3_migration_uidl_sync_if_needed() runs pop3_migration_uidl_sync() only
\* for a mailbox that is neither synced nor marked failed
SyncNeeded_RetryFailed(m) == ~m.uidl_synced
SyncNeeded_Resync(m) == ~m.uidl_sync_failed
SyncNeeded(m) == ~m.uidl_synced /\ ~m.uidl_sync_failed

\* Mailbox objects are numbered in the order of their first use: all of them
\* are opened on the same IMAP mailbox, so they are interchangeable until used.
\* Every modelled object is one the plugin is active for (the user's INBOX, or
\* any mailbox with pop3_migration_all_mailboxes).
inbox_user(b) == b \in Boxes
InUse(b) == IF b = 1 THEN TRUE ELSE ~SyncNeeded(mbox[b - 1])

Idle == pc = "idle" /\ ~panic

\* "imap_map_read(box) < 0 || pop3_map_read(...) < 0": where
\* pop3_migration_uidl_sync() goes once imap_map_read() has returned r
AfterImapMapRead_Continue(r) == "pop3_map_read"
AfterImapMapRead(r) == IF r < 0 THEN "return" ELSE "pop3_map_read"

\* "pop3_map_read_hdr_hashes(...) < 0 || imap_map_read_hdr_hashes(box) < 0":
\* the order in which phase 3 reads the two sides' digests
HashOrder_ImapFirst == <<"imap_hdr_hashes", "pop3_hdr_hashes">>
HashOrder == <<"pop3_hdr_hashes", "imap_hdr_hashes">>
AfterHashes(step, r) ==
    IF r < 0 THEN "return"
    ELSE IF step = HashOrder[1] THEN HashOrder[2]
    ELSE "assign_by_hdr_hash"

\* the end of pop3_migration_uidl_sync_if_needed(): a negative result marks
\* the mailbox failed
MarkFailed_OnZero(m, r) == IF r <= 0 THEN [m EXCEPT !.uidl_sync_failed = TRUE] ELSE m
MarkFailed(m, r) == IF r < 0 THEN [m EXCEPT !.uidl_sync_failed = TRUE] ELSE m

\* A caller (a UIDL/order query, or a search-init that wants these fields)
\* enters pop3_migration_uidl_sync_if_needed() on a mailbox that needs the
\* sync: pop3_migration_uidl_sync() starts.  The caller passes nothing into
\* the sync; SyncReturn resumes it.
SyncStart(b) ==
    /\ Idle
    /\ InUse(b)
    /\ Or(set.all_mailboxes, inbox_user(b))
    /\ SyncNeeded(mbox[b])
    /\ pc' = "imap_map_read"
    /\ cur' = b
    /\ ret' = 0
    /\ reply' = NoReply
    /\ io' = <<>>
    /\ log' = {}
    /\ UNCHANGED <<hdr_stream, envVars, cacheVars, storageVars, mbox, imapReads, matchRuns, panic>>

\* imap_map_read(): the i_assert(), then the enumeration of the IMAP mailbox
ImapMapRead ==
    /\ pc = "imap_map_read" /\ ~panic
    /\ IF mbox[cur].created
       THEN /\ panic' = TRUE
            /\ UNCHANGED <<mbox, pc, ret, io, log, imapReads>>
       ELSE /\ mbox' = [mbox EXCEPT ![cur].created = TRUE,
                                    ![cur].imap_msg_map = ImapEnumMap]
            /\ imapReads' = [imapReads EXCEPT ![cur] = @ + 1]
            /\ ret' = ImapEnumRet
            /\ io' = io \o <<IoEv("imap", "enum", 0)>>
            /\ log' = log \cup (IF ImapEnumRet < 0 THEN {"err_imap_enum"} ELSE {})
            /\ pc' = AfterImapMapRead(ImapEnumRet)
            /\ UNCHANGED panic
    /\ UNCHANGED <<hdr_stream, envVars, cacheVars, storageVars, cur, reply, matchRuns>>

\* pop3_map_read(): reuse of the storage's array, or the enumeration of the
\* POP3 mailbox
Pop3MapRead ==
    /\ pc = "pop3_map_read" /\ ~panic
    /\ IF pop3_created
       THEN /\ pop3_uidl_map' = PopResetUids(pop3_uidl_map)
            /\ ret' = 0
            /\ pc' = "assign_cached"
            /\ UNCHANGED <<pop3_created, io, log>>
       ELSE /\ pop3_created' = TRUE
            /\ pop3_uidl_map' = PopEnumMap
            /\ ret' = PopEnumRet
            /\ io' = io \o PopEnumIo
            /\ log' = log \cup PopEnumWarns
                          \cup (IF PopEnumRet < 0 THEN {"err_pop3_enum"} ELSE {})
            /\ pc' = IF PopEnumRet < 0 THEN "return" ELSE "assign_cached"
    /\ UNCHANGED <<hdr_stream, envVars, cacheVars, pop3_all_hdr_sha1_set, mbox, cur, reply,
                   imapReads, matchRuns, panic>>

\* pop3_uidl_assign_cached(): phase 1
AssignCached ==
    /\ pc = "assign_cached" /\ ~panic
    /\ \E r \in pop3_uidl_assign_cached(pop3_uidl_map, mbox[cur].imap_msg_map) :
          /\ pop3_uidl_map' = r.pop
          /\ mbox' = [mbox EXCEPT ![cur].imap_msg_map = r.imap]
    /\ matchRuns' = [matchRuns EXCEPT ![cur] = @ + 1]
    /\ pc' = "sort_natural"
    /\ UNCHANGED <<hdr_stream, envVars, cacheVars, pop3_created, pop3_all_hdr_sha1_set,
                   cur, ret, reply, io, log, imapReads, panic>>

\* the two array_sort() calls of pop3_migration_uidl_sync() before phase 2
SortNatural_ImapOnly ==
    /\ pc = "sort_natural" /\ ~panic
    /\ \E m \in array_sort(mbox[cur].imap_msg_map, "imap_msg_map_uid_cmp") :
          mbox' = [mbox EXCEPT ![cur].imap_msg_map = m]
    /\ pc' = "assign_by_size"
    /\ UNCHANGED <<hdr_stream, envVars, cacheVars, storageVars,
                   cur, ret, reply, obsVars>>
SortNatural ==
    /\ pc = "sort_natural" /\ ~panic
    /\ \E p \in array_sort(pop3_uidl_map, "pop3_uidl_map_pop3_seq_cmp"),
          m \in array_sort(mbox[cur].imap_msg_map, "imap_msg_map_uid_cmp") :
          /\ pop3_uidl_map' = p
          /\ mbox' = [mbox EXCEPT ![cur].imap_msg_map = m]
    /\ pc' = "assign_by_size"
    /\ UNCHANGED <<hdr_stream, envVars, cacheVars, pop3_created, pop3_all_hdr_sha1_set,
                   cur, ret, reply, obsVars>>

\* pop3_uidl_assign_by_size(): phase 2
AssignBySize ==
    /\ pc = "assign_by_size" /\ ~panic
    /\ LET r == pop3_uidl_assign_by_size(pop3_uidl_map, mbox[cur].imap_msg_map)
       IN  /\ pop3_uidl_map' = r.pop
           /\ mbox' = [mbox EXCEPT ![cur].imap_msg_map = r.imap,
                                   ![cur].first_unfound_idx = r.i]
           /\ pc' = IF r.all THEN "add_to_cache" ELSE HashOrder[1]
    /\ UNCHANGED <<hdr_stream, envVars, cacheVars, pop3_created, pop3_all_hdr_sha1_set,
                   cur, ret, reply, obsVars>>

\* pop3_map_read_hdr_hashes(): the POP3 side of phase 3's digest reading
Pop3ReadHdrHashes ==
    /\ pc = "pop3_hdr_hashes" /\ ~panic
    /\ IF pop3_all_hdr_sha1_set
       THEN /\ pc' = AfterHashes("pop3_hdr_hashes", 0)
            /\ UNCHANGED <<popHdrCache, pop3_uidl_map, pop3_all_hdr_sha1_set,
                           ret, io, log>>
       ELSE LET first_seq == IF set.all_mailboxes THEN 1
                             ELSE mbox[cur].first_unfound_idx + 1
                r == map_read_hdr_hashes("pop3", pop3_uidl_map, popHdrCache, first_seq)
            IN  /\ pop3_uidl_map' = r.map
                /\ popHdrCache' = r.cache
                /\ io' = io \o r.io
                /\ log' = log \cup r.log
                /\ ret' = r.ret
                /\ pop3_all_hdr_sha1_set' = (r.ret = 0 /\ first_seq = 1)
                /\ pc' = AfterHashes("pop3_hdr_hashes", r.ret)
    /\ UNCHANGED <<hdr_stream, envVars, uidlCache, imapHdrCache, pop3_created, mbox, cur,
                   reply, imapReads, matchRuns, panic>>

\* imap_map_read_hdr_hashes(): the IMAP side of phase 3's digest reading
ImapReadHdrHashes ==
    /\ pc = "imap_hdr_hashes" /\ ~panic
    /\ LET r == map_read_hdr_hashes("imap", mbox[cur].imap_msg_map, imapHdrCache,
                                    mbox[cur].first_unfound_idx + 1)
       IN  /\ mbox' = [mbox EXCEPT ![cur].imap_msg_map = r.map]
           /\ imapHdrCache' = r.cache
           /\ io' = io \o r.io
           /\ log' = log \cup r.log
           /\ ret' = r.ret
           /\ pc' = AfterHashes("imap_hdr_hashes", r.ret)
    /\ UNCHANGED <<hdr_stream, envVars, uidlCache, popHdrCache, storageVars, cur, reply,
                   imapReads, matchRuns, panic>>

\* the rest of pop3_uidl_assign_by_hdr_hash(): phase 3's matching, the missing
\* UIDLs' verdict and, when it is 0, the sort back to pop3_seq / uid order
AssignByHdrHash ==
    /\ pc = "assign_by_hdr_hash" /\ ~panic
    /\ \E r \in HdrHashMatch(pop3_uidl_map, mbox[cur].imap_msg_map) :
          /\ ret' = r.ret
          /\ log' = log \cup r.log
          /\ pc' = IF r.ret < 0 THEN "return" ELSE "add_to_cache"
          /\ IF r.ret < 0
             THEN /\ pop3_uidl_map' = r.pop
                  /\ mbox' = [mbox EXCEPT ![cur].imap_msg_map = r.imap]
             ELSE \E p \in array_sort(r.pop, "pop3_uidl_map_pop3_seq_cmp"),
                     m \in array_sort(r.imap, "imap_msg_map_uid_cmp") :
                     /\ pop3_uidl_map' = p
                     /\ mbox' = [mbox EXCEPT ![cur].imap_msg_map = m]
    /\ UNCHANGED <<hdr_stream, envVars, cacheVars, pop3_created, pop3_all_hdr_sha1_set,
                   cur, reply, io, imapReads, matchRuns, panic>>

\* the end of pop3_migration_uidl_sync(): imap_uidls_add_to_cache() unless
\* skip_uidl_cache, then uidl_synced = TRUE
AddToCache ==
    /\ pc = "add_to_cache" /\ ~panic
    /\ IF set.skip_uidl_cache
       THEN UNCHANGED <<uidlCache, io>>
       ELSE /\ uidlCache' = imap_uidls_add_to_cache(mbox[cur].imap_msg_map, uidlCache)
            /\ io' = io \o <<IoEv("imap", "cache_write", 0)>>
    /\ mbox' = [mbox EXCEPT ![cur].uidl_synced = TRUE]
    /\ ret' = 0
    /\ pc' = "return"
    /\ UNCHANGED <<hdr_stream, envVars, imapHdrCache, popHdrCache, storageVars, cur, reply,
                   log, imapReads, matchRuns, panic>>

\* what pop3_migration_get_special() returns for a UIDL/order field once
\* pop3_migration_uidl_sync_if_needed() has returned r on mailbox object b
SpecialReply_IgnoreFailure(b, field, uid, r) ==
    LET map == mbox[b].imap_msg_map
        idx == array_bsearch(map, uid)
        base == [op |-> "get_special", box |-> b, field |-> field, uid |-> uid,
                 result |-> "none", value |-> NULL, error |-> "none"]
    IN  IF idx # 0 /\ map[idx].pop3_uidl # NULL
          THEN [base EXCEPT !.result = "mapped",
                            !.value = IF field = "uidl_backend"
                                      THEN map[idx].pop3_uidl
                                      ELSE map[idx].pop3_seq]
        ELSE IF r < 0 THEN [base EXCEPT !.result = "fail", !.error = "temp"]
        ELSE [base EXCEPT !.result = "super"]
SpecialReply(b, field, uid, r) ==
    LET map == mbox[b].imap_msg_map
        idx == array_bsearch(map, uid)
        base == [op |-> "get_special", box |-> b, field |-> field, uid |-> uid,
                 result |-> "none", value |-> NULL, error |-> "none"]
    IN  IF r < 0 THEN [base EXCEPT !.result = "fail", !.error = "temp"]
        ELSE IF idx # 0 /\ map[idx].pop3_uidl # NULL
          THEN [base EXCEPT !.result = "mapped",
                            !.value = IF field = "uidl_backend"
                                      THEN map[idx].pop3_uidl
                                      ELSE map[idx].pop3_seq]
        ELSE [base EXCEPT !.result = "super"]

\* what pop3_migration_mailbox_search_init() returns: the search always starts,
\* whatever the sync returned
SearchReply(b, r) ==
    [op |-> "search_init", box |-> b, field |-> "none", uid |-> 0,
     result |-> "super", value |-> NULL,
     error |-> IF r < 0 THEN "temp" ELSE "none"]

SpecialFields == {"uidl_backend", "pop3_order"}

\* pop3_migration_uidl_sync() has returned: the rest of
\* pop3_migration_uidl_sync_if_needed() (the failed flag, the storage error),
\* then the caller goes on: a query answers, a search-init starts its search
SyncReturn ==
    /\ pc = "return" /\ ~panic
    /\ mbox' = [mbox EXCEPT ![cur] = MarkFailed(@, ret)]
    /\ \E caller \in {"search_init"} \cup (IF Uids = {} THEN {} ELSE {"get_special"}) :
          IF caller = "search_init"
          THEN reply' = SearchReply(cur, ret)
          ELSE \E field \in SpecialFields, uid \in Uids :
                  reply' = SpecialReply(cur, field, uid, ret)
    /\ pc' = "idle"
    /\ UNCHANGED <<hdr_stream, envVars, cacheVars, storageVars, cur, ret, obsVars>>

\* pop3_migration_get_special() on a mailbox that needs no sync: a UIDL/order
\* field of a synced or failed mailbox, or any other field
GetSpecial_OtherSyncs(b, field, uid) ==
    /\ Idle
    /\ InUse(b)
    /\ ~SyncNeeded(mbox[b])
    /\ LET r == IF mbox[b].uidl_synced THEN 0 ELSE -1
       IN  /\ reply' = SpecialReply(b, field, uid, r)
           /\ mbox' = [mbox EXCEPT ![b] = MarkFailed(@, r)]
    /\ UNCHANGED <<hdr_stream, envVars, cacheVars, storageVars, pc, cur, ret, obsVars>>
GetSpecial(b, field, uid) ==
    /\ Idle
    /\ InUse(b)
    /\ IF field \in SpecialFields
       THEN /\ ~SyncNeeded(mbox[b])
            /\ LET r == IF mbox[b].uidl_synced THEN 0 ELSE -1
               IN  /\ reply' = SpecialReply(b, field, uid, r)
                   /\ mbox' = [mbox EXCEPT ![b] = MarkFailed(@, r)]
       ELSE /\ reply' = [op |-> "get_special", box |-> b, field |-> field,
                         uid |-> uid, result |-> "super", value |-> NULL,
                         error |-> "none"]
            /\ UNCHANGED mbox
    /\ UNCHANGED <<hdr_stream, envVars, cacheVars, storageVars, pc, cur, ret, obsVars>>

\* pop3_migration_mailbox_search_init() on a mailbox that needs no sync, or
\* for a search that wants neither field
SearchInit(b, wanted) ==
    /\ Idle
    /\ InUse(b)
    /\ IF wanted /\ Or(set.all_mailboxes, inbox_user(b))
       THEN /\ ~SyncNeeded(mbox[b])
            /\ LET r == IF mbox[b].uidl_synced THEN 0 ELSE -1
               IN  /\ reply' = SearchReply(b, r)
                   /\ mbox' = [mbox EXCEPT ![b] = MarkFailed(@, r)]
       ELSE /\ reply' = SearchReply(b, 0)
            /\ UNCHANGED mbox
    /\ UNCHANGED <<hdr_stream, envVars, cacheVars, storageVars, pc, cur, ret, obsVars>>

Next ==
    \/ \E b \in Boxes : SyncStart(b)
    \/ ImapMapRead
    \/ Pop3MapRead
    \/ AssignCached
    \/ SortNatural
    \/ AssignBySize
    \/ Pop3ReadHdrHashes
    \/ ImapReadHdrHashes
    \/ AssignByHdrHash
    \/ AddToCache
    \/ SyncReturn
    \/ \E b \in Boxes, field \in SpecialFields \cup {"other"}, uid \in Uids :
          GetSpecial(b, field, uid)
    \/ \E b \in Boxes, wanted \in BOOLEAN : SearchInit(b, wanted)

(* ------------------- pop3_migration_get_hdr_sha1() --------------------- *)
\* A struct message_header_line: name and value are sequences of bytes, and
\* only the lengths of the other parts matter.  listed says that the name is
\* one of hdr_hash_skip_headers.
HdrLine(name, middle_len, value, continued, listed) ==
    [eoh |-> FALSE, name |-> name, name_len |-> Len(name),
     middle_len |-> middle_len, value |-> value, value_len |-> Len(value),
     continued |-> continued, listed |-> listed]
EohLine ==
    [eoh |-> TRUE, name |-> <<>>, name_len |-> 0, middle_len |-> 0,
     value |-> <<>>, value_len |-> 0, continued |-> FALSE, listed |-> FALSE]

\* the bytes of the lines below
CR == 13
SP == 32
TAB == 9
LetterA == 65
DEL == 127

\* "\r" alone on a line (CR+CR+LF once the line's own CR+LF is taken off)
CrOnlyLine == HdrLine(<<>>, 0, <<CR>>, FALSE, FALSE)
\* the lines of a header: a header, a header of hdr_hash_skip_headers, a line
\* with no colon, a header whose name has an invalid byte, a continuation line
\* of white space, a continuation line with text, and the CR-only line
HdrLines ==
    {HdrLine(<<LetterA>>, 1, <<LetterA>>, FALSE, FALSE),
     HdrLine(<<LetterA, LetterA>>, 1, <<LetterA>>, FALSE, TRUE),
     HdrLine(<<>>, 0, <<LetterA, CR>>, FALSE, FALSE),
     HdrLine(<<LetterA, DEL>>, 1, <<LetterA>>, FALSE, FALSE),
     HdrLine(<<LetterA>>, 1, <<SP, TAB>>, TRUE, FALSE),
     HdrLine(<<LetterA>>, 1, <<SP, LetterA>>, TRUE, FALSE),
     CrOnlyLine}

\* name[i] as the int a comparison sees: the byte itself where the build's
\* char is unsigned, the byte less 256 for a byte over 0x7f where it is signed
CharValue(byte) ==
    IF hdr_stream.char_is_signed /\ byte >= 128 THEN byte - 256 ELSE byte

\* header_name_is_valid(): (uint8_t)name[i] <= 0x20 || name[i] >= 0x7f
RECURSIVE header_name_is_valid(_)
header_name_is_valid(name) ==
    IF name = <<>> THEN TRUE
    ELSE IF Head(name) <= 32 \/ CharValue(Head(name)) >= 127 THEN FALSE
    ELSE header_name_is_valid(Tail(name))

\* header_value_want_skip()
header_value_want_skip(hdr) ==
    \A i \in 1..hdr.value_len : hdr.value[i] \in {SP, TAB}

\* i_memspn(data, len, accept): the length of the prefix made of accept bytes
RECURSIVE i_memspn(_, _)
i_memspn(data, accept) ==
    IF data = <<>> \/ Head(data) \notin accept THEN 0
    ELSE 1 + i_memspn(Tail(data), accept)

NewHdrContext == [have_eoh |-> FALSE, stop |-> FALSE]

\* pop3_header_filter_callback(): what it leaves in *matched and in *ctx
pop3_header_filter_callback_StopOneLine(hdr, matched, ctx) ==
    IF hdr.eoh
    THEN [matched |-> matched, ctx |-> [ctx EXCEPT !.have_eoh = ~ctx.stop]]
    ELSE LET cr_only == /\ hdr.value_len > 0 /\ hdr.middle_len = 0
                        /\ hdr.name_len = 0
                        /\ i_memspn(hdr.value, {CR}) = hdr.value_len
             m1 == IF cr_only THEN TRUE
                   ELSE IF ~hdr.continued /\ hdr.middle_len = 0 THEN TRUE
                   ELSE IF hdr.continued /\ header_value_want_skip(hdr) THEN TRUE
                   ELSE matched
         IN  [matched |-> IF ~header_name_is_valid(hdr.name) THEN TRUE ELSE m1,
              ctx |-> [ctx EXCEPT !.stop = cr_only]]
pop3_header_filter_callback_Assigns(hdr, matched, ctx) ==
    IF hdr.eoh
    THEN [matched |-> IF ctx.stop THEN TRUE ELSE matched,
          ctx |-> [ctx EXCEPT !.have_eoh = TRUE]]
    ELSE LET cr_only == /\ hdr.value_len > 0 /\ hdr.middle_len = 0
                        /\ hdr.name_len = 0
                        /\ i_memspn(hdr.value, {CR}) = hdr.value_len
             ctx1 == IF cr_only THEN [ctx EXCEPT !.stop = TRUE] ELSE ctx
             m1 == IF cr_only THEN matched
                   ELSE IF ~hdr.continued THEN hdr.middle_len = 0
                   ELSE header_value_want_skip(hdr)
         IN  [matched |-> IF ctx1.stop THEN TRUE
                          ELSE IF ~header_name_is_valid(hdr.name) THEN TRUE
                          ELSE m1,
              ctx |-> ctx1]
pop3_header_filter_callback_NoStop(hdr, matched, ctx) ==
    IF hdr.eoh
    THEN [matched |-> matched, ctx |-> [ctx EXCEPT !.have_eoh = TRUE]]
    ELSE LET cr_only == /\ hdr.value_len > 0 /\ hdr.middle_len = 0
                        /\ hdr.name_len = 0
                        /\ i_memspn(hdr.value, {CR}) = hdr.value_len
             m1 == IF cr_only THEN matched
                   ELSE IF ~hdr.continued /\ hdr.middle_len = 0 THEN TRUE
                   ELSE IF hdr.continued /\ header_value_want_skip(hdr) THEN TRUE
                   ELSE matched
         IN  [matched |-> IF ~header_name_is_valid(hdr.name) THEN TRUE ELSE m1,
              ctx |-> IF cr_only THEN [ctx EXCEPT !.stop = TRUE] ELSE ctx]
pop3_header_filter_callback(hdr, matched, ctx) ==
    IF hdr.eoh
    THEN [matched |-> IF ctx.stop THEN TRUE ELSE matched,
          ctx |-> [ctx EXCEPT !.have_eoh = TRUE]]
    ELSE LET cr_only == /\ hdr.value_len > 0 /\ hdr.middle_len = 0
                        /\ hdr.name_len = 0
                        /\ i_memspn(hdr.value, {CR}) = hdr.value_len
             ctx1 == IF cr_only THEN [ctx EXCEPT !.stop = TRUE] ELSE ctx
             m1 == IF cr_only THEN matched
                   ELSE IF ~hdr.continued /\ hdr.middle_len = 0 THEN TRUE
                   ELSE IF hdr.continued /\ header_value_want_skip(hdr) THEN TRUE
                   ELSE matched
         IN  [matched |-> IF ctx1.stop THEN TRUE
                          ELSE IF ~header_name_is_valid(hdr.name) THEN TRUE
                          ELSE m1,
              ctx |-> ctx1]

\* The header filter stream of i_stream_create_header_filter() with
\* HEADER_FILTER_EXCLUDE | HEADER_FILTER_HIDE_BODY | HEADER_FILTER_NO_CR and
\* the callback: a line starts matched if its name is listed (a continuation
\* line: if the line before it ended matched), the end-of-headers line starts
\* matched; the callback may change that.  A matched header line is left out,
\* a matched end-of-headers line is written as the empty line; every line
\* that is written ends in LF alone.
NewHdrStream(input) ==
    [input |-> input, pos |-> 1, ctx |-> NewHdrContext,
     prev_matched |-> FALSE, out |-> <<>>]
HdrStreamDone(st) == st.pos > Len(st.input)
header_filter_read_line(st) ==
    LET hdr == st.input[st.pos]
        matched == IF hdr.eoh THEN TRUE
                   ELSE IF hdr.continued THEN st.prev_matched
                   ELSE hdr.listed
        r == pop3_header_filter_callback(hdr, matched, st.ctx)
        written == IF hdr.eoh THEN IF r.matched THEN <<"LF">> ELSE <<>>
                   ELSE IF r.matched THEN <<>>
                   ELSE <<[name |-> IF hdr.continued THEN <<>> ELSE hdr.name,
                           value |-> hdr.value]>>
    IN  [st EXCEPT !.pos = @ + 1, !.ctx = r.ctx,
                   !.prev_matched = IF hdr.eoh THEN @ ELSE r.matched,
                   !.out = @ \o written]

\* the while loop of pop3_migration_get_hdr_sha1() reads one more line of
\* the stream named which
HdrReadMore(which) ==
    /\ which \in DOMAIN hdr_stream
    /\ ~HdrStreamDone(hdr_stream[which])
    /\ hdr_stream' = [hdr_stream EXCEPT ![which] = header_filter_read_line(@)]
    /\ UNCHANGED <<envVars, mailVars>>

NextHdr == \E which \in {"with_cr", "plain"} : HdrReadMore(which)

(* --------------------------- initial states ---------------------------- *)
Settings(all, missing, extra, nosize, nocache) ==
    [all_mailboxes |-> all, ignore_missing_uidls |-> missing,
     ignore_extra_uidls |-> extra, skip_size_check |-> nosize,
     skip_uidl_cache |-> nocache]

\* pop3_migration_default_settings
DefaultSettings == Settings(FALSE, FALSE, FALSE, FALSE, FALSE)

AllSettings ==
    {Settings(a, m, e, s, c) : a \in BOOLEAN, m \in BOOLEAN, e \in BOOLEAN,
                               s \in BOOLEAN, c \in BOOLEAN}

SeqsUpTo(S, n) == UNION {[1..k -> S] : k \in 0..n}

\* POP3 mailboxes of at most n messages: a UIDL in U (which may hold the empty
\* string), and no two messages with the same non-empty UIDL
PopLists(U, S, D, E, n) ==
    {l \in SeqsUpTo([uidl : U, size : S, dig : D, eoh : E], n) :
        \A i, j \in 1..Len(l) :
            (i # j /\ l[i].uidl # EmptyUidl) => l[i].uidl # l[j].uidl}

\* IMAP mailboxes of at most n messages, the i-th with uid UidOf(i)
ImapLists(S, D, E, n) ==
    {[i \in 1..Len(l) |-> [uid |-> UidOf(i), size |-> l[i].size,
                           dig |-> l[i].dig, eoh |-> l[i].eoh]] :
        l \in SeqsUpTo([size : S, dig : D, eoh : E], n)}

\* the collaborator calls that can fail on mailboxes of np and ni messages
Faults(np, ni) ==
    LET len(side) == IF side = "pop3" THEN np ELSE ni
        sides == {"pop3", "imap"}
    IN  {[kind |-> "sync", side |-> "pop3", at |-> 0]}
        \cup {[kind |-> k, side |-> sd, at |-> 0] :
                k \in {"enum_deinit", "cached_deinit", "hash_deinit"}, sd \in sides}
        \cup {[kind |-> "enum_uidl", side |-> "pop3", at |-> a] : a \in 1..np}
        \cup UNION {{[kind |-> k, side |-> sd, at |-> a] :
                        k \in {"enum_size", "hdr_stream", "hdr_expunged", "hdr_read",
                               "body_stream", "body_expunged", "body_read"},
                        a \in 1..len(sd)} : sd \in sides}

\* the state after the storage and the mailbox objects were created, in the
\* environment e = [set, popList, imapList, uidlCache, fault, nBoxes]
MaxHdrLines == 2
MaxNameLen == 2
InitIn(e) ==
    /\ set = e.set
    /\ popList = e.popList
    /\ imapList = e.imapList
    /\ fault = e.fault
    /\ nBoxes = e.nBoxes
    /\ uidlCache = e.uidlCache
    /\ imapHdrCache = [u \in {e.imapList[i].uid : i \in 1..Len(e.imapList)} |-> NULL]
    /\ popHdrCache = [q \in 1..Len(e.popList) |-> NULL]
    /\ pop3_created = FALSE
    /\ pop3_uidl_map = <<>>
    /\ pop3_all_hdr_sha1_set = FALSE
    /\ mbox = [b \in 1..e.nBoxes |-> NewMbox]
    /\ pc = "idle"
    /\ cur = 1
    /\ ret = 0
    /\ reply = NoReply
    /\ io = <<>>
    /\ log = {}
    /\ imapReads = [b \in 1..e.nBoxes |-> 0]
    /\ matchRuns = [b \in 1..e.nBoxes |-> 0]
    /\ panic = FALSE
    /\ hdr_stream = <<>>

UidsOf(l) == {l[i].uid : i \in 1..Len(l)}
EmptyCache(l) == [u \in UidsOf(l) |-> NULL]
Caches(l) == [UidsOf(l) -> {NULL} \cup Uidls]

Env(s, p, i, c, f, n) ==
    [set |-> s, popList |-> p, imapList |-> i, uidlCache |-> c, fault |-> f,
     nBoxes |-> n]

\* Sessions that fail and that succeed: all messages have one size (phase 2
\* stops at the first POP3 message that has a successor), the k-th POP3 message
\* and the k-th IMAP message have the same digest, and each message has its
\* end-of-headers line in the header fetch or only in the body fetch.  Either one collaborator
\* call fails under the default settings, or none does under any settings.
CtlPopLists ==
    UNION {{[k \in 1..n |-> [uidl |-> k, size |-> 1, dig |-> k, eoh |-> e[k]]] :
              e \in [1..n -> {"hdr", "body"}]} : n \in 0..MaxPop}
CtlImapLists ==
    UNION {{[k \in 1..n |-> [uid |-> UidOf(k), size |-> 1, dig |-> k, eoh |-> e[k]]] :
              e \in [1..n -> {"hdr", "body"}]} : n \in 0..MaxImap}
CtlEnvs(n) ==
    UNION {{Env(DefaultSettings, p, i, EmptyCache(i), f, n) :
              f \in Faults(Len(p), Len(i))} \cup
           {Env(s, p, i, EmptyCache(i), NoFault, n) : s \in AllSettings} :
           p \in CtlPopLists, i \in CtlImapLists}

Init == \E e \in CtlEnvs(MaxBoxes) : InitIn(e)

Spec == Init /\ [][Next]_vars

\* Matching with a UIDL cache left by earlier runs: one mailbox object, no
\* fault, the default settings, every message with its end-of-headers line in
\* the header fetch; any sizes, digests and UIDLs, and any cached UIDL (of the
\* POP3 mailbox's or not, also twice the same) on any IMAP message
MatchPopLists == PopLists(Uidls, Sizes, Digests, {"hdr"}, MaxPop)
MatchImapLists == ImapLists(Sizes, Digests, {"hdr"}, MaxImap)
MatchEnvs(n) ==
    UNION {{Env(DefaultSettings, p, i, c, NoFault, n) : c \in Caches(i)} :
           p \in MatchPopLists, i \in MatchImapLists}

InitMatch == \E e \in MatchEnvs(1) : InitIn(e)

SpecMatch == InitMatch /\ [][Next]_vars

\* The same sessions, run to their end: pop3_migration_uidl_sync() is one
\* synchronous call, each of its steps is taken once the one before it has
\* returned
SyncSteps ==
    \/ ImapMapRead \/ Pop3MapRead \/ AssignCached \/ SortNatural
    \/ AssignBySize \/ Pop3ReadHdrHashes \/ ImapReadHdrHashes
    \/ AssignByHdrHash \/ AddToCache \/ SyncReturn
SpecLive == InitMatch /\ [][Next]_vars /\ WF_vars(SyncSteps)

\* Two sessions, one after the other, on unchanged mailboxes: two mailbox
\* objects, no fault, the UIDL cache empty before the first session and used
\* by both; missing UIDLs are an error or ignored
TwoEnvs(n) ==
    {Env(Settings(FALSE, m, FALSE, FALSE, FALSE), p, i, EmptyCache(i), NoFault, n) :
        m \in BOOLEAN, p \in MatchPopLists, i \in MatchImapLists}

InitTwo == \E e \in TwoEnvs(MaxBoxes) : InitIn(e)

SpecTwo == InitTwo /\ [][Next]_vars

\* The policy for POP3 messages that phase 3 leaves unmatched: one mailbox
\* object, no fault, no cached UIDL, sizes checked and the UIDL cache used;
\* any sizes, digests and UIDLs, and every combination of all_mailboxes,
\* ignore_missing_uidls and ignore_extra_uidls
PolicyEnvs(n) ==
    {Env(Settings(a, m, e, FALSE, FALSE), p, i, EmptyCache(i), NoFault, n) :
        a \in BOOLEAN, m \in BOOLEAN, e \in BOOLEAN,
        p \in MatchPopLists, i \in MatchImapLists}

InitPolicy == \E e \in PolicyEnvs(1) : InitIn(e)

SpecPolicy == InitPolicy /\ [][Next]_vars

\* POP3 servers that return an empty UIDL: one mailbox object, no fault, no
\* cached UIDL; any POP3 message may have the empty UIDL; missing UIDLs are an
\* error or ignored
EmptyPopLists == PopLists(Uidls \cup {EmptyUidl}, Sizes, Digests, {"hdr"}, MaxPop)
EmptyEnvs(n) ==
    {Env(Settings(FALSE, m, FALSE, FALSE, FALSE), p, i, EmptyCache(i), NoFault, n) :
        m \in BOOLEAN, p \in EmptyPopLists, i \in MatchImapLists}

InitEmpty == \E e \in EmptyEnvs(1) : InitIn(e)

SpecEmpty == InitEmpty /\ [][Next]_vars

\* The UIDL cache used and skipped: one mailbox object, no fault, sizes
\* checked, missing UIDLs an error; any cached UIDL on any IMAP message, all
\* IMAP messages with one digest
CacheImapLists == ImapLists(Sizes, {1}, {"hdr"}, MaxImap)
CacheEnvs(n) ==
    UNION {{Env(Settings(FALSE, FALSE, FALSE, FALSE, nocache), p, i, c, NoFault, n) :
              nocache \in BOOLEAN, c \in Caches(i)} :
           p \in MatchPopLists, i \in CacheImapLists}

InitCache == \E e \in CacheEnvs(1) : InitIn(e)

SpecCache == InitCache /\ [][Next]_vars

\* Truncated headers: one mailbox object, the default settings, all messages
\* of one size, the k-th messages of both sides with the same digest; each
\* message has its end-of-headers line in the header fetch, only in the body
\* fetch, or in neither; no call fails or one body fetch does
TruncPopLists ==
    UNION {{[k \in 1..n |-> [uidl |-> k, size |-> 1, dig |-> k, eoh |-> e[k]]] :
              e \in [1..n -> EohKinds]} : n \in 0..MaxPop}
TruncImapLists ==
    UNION {{[k \in 1..n |-> [uid |-> UidOf(k), size |-> 1, dig |-> k, eoh |-> e[k]]] :
              e \in [1..n -> EohKinds]} : n \in 0..MaxImap}
TruncEnvs(n) ==
    UNION {{Env(DefaultSettings, p, i, EmptyCache(i), f, n) :
              f \in {NoFault} \cup
                    {g \in Faults(Len(p), Len(i)) :
                        g.kind \in {"body_stream", "body_expunged", "body_read"}}} :
           p \in TruncPopLists, i \in TruncImapLists}

InitTrunc == \E e \in TruncEnvs(1) : InitIn(e)

SpecTrunc == InitTrunc /\ [][Next]_vars

\* Matching by digest: one mailbox object, the default settings, no fault; any
\* sizes, digests and UIDLs, POP3 messages with an empty UIDL, and the first
\* UIDL or none in the UIDL cache field of each IMAP message
DigestEnvs(n) ==
    UNION {{Env(DefaultSettings, p, i, c, NoFault, n) :
              c \in [UidsOf(i) -> {NULL, 1}]} :
           p \in EmptyPopLists, i \in MatchImapLists}

InitDigest == \E e \in DigestEnvs(1) : InitIn(e)

SpecDigest == InitDigest /\ [][Next]_vars

\* Header hashing on its own: two streams are hashed, the one holds the
\* header lines L, a CR-only line, the header lines M and the end-of-headers
\* line, the other holds L and the end-of-headers line
InitHdr ==
    /\ set = DefaultSettings /\ popList = <<>> /\ imapList = <<>>
    /\ fault = NoFault /\ nBoxes = 1
    /\ uidlCache = <<>> /\ imapHdrCache = <<>> /\ popHdrCache = <<>>
    /\ pop3_created = FALSE /\ pop3_uidl_map = <<>>
    /\ pop3_all_hdr_sha1_set = FALSE
    /\ mbox = [b \in 1..1 |-> NewMbox]
    /\ pc = "idle" /\ cur = 1 /\ ret = 0 /\ reply = NoReply
    /\ io = <<>> /\ log = {}
    /\ imapReads = [b \in 1..1 |-> 0] /\ matchRuns = [b \in 1..1 |-> 0]
    /\ panic = FALSE
    /\ \E L \in SeqsUpTo(HdrLines, MaxHdrLines), M \in SeqsUpTo(HdrLines, MaxHdrLines),
          signed \in BOOLEAN :
          hdr_stream = [with_cr |-> NewHdrStream(L \o <<CrOnlyLine>> \o M \o <<EohLine>>),
                        plain |-> NewHdrStream(L \o <<EohLine>>),
                        char_is_signed |-> signed]

SpecHdr == InitHdr /\ [][NextHdr]_vars

\* Header names: the two streams hold one header each, under the same name,
\* the one as the first line and the other after a CR-only line.  The name is
\* any one byte of 0x01..0xFF or up to MaxNameLen of the bytes next to the
\* limits of the test; the build's char is signed or unsigned.
NameBytes == 1..255
EdgeBytes == {1, 32, 33, 126, 127, 128, 255}
HdrNames == [1..1 -> NameBytes] \cup SeqsUpTo(EdgeBytes, MaxNameLen)
InitName ==
    /\ set = DefaultSettings /\ popList = <<>> /\ imapList = <<>>
    /\ fault = NoFault /\ nBoxes = 1
    /\ uidlCache = <<>> /\ imapHdrCache = <<>> /\ popHdrCache = <<>>
    /\ pop3_created = FALSE /\ pop3_uidl_map = <<>>
    /\ pop3_all_hdr_sha1_set = FALSE
    /\ mbox = [b \in 1..1 |-> NewMbox]
    /\ pc = "idle" /\ cur = 1 /\ ret = 0 /\ reply = NoReply
    /\ io = <<>> /\ log = {}
    /\ imapReads = [b \in 1..1 |-> 0] /\ matchRuns = [b \in 1..1 |-> 0]
    /\ panic = FALSE
    /\ \E name \in HdrNames, signed \in BOOLEAN :
          LET hdr == HdrLine(name, 1, <<LetterA>>, FALSE, FALSE)
          IN  hdr_stream = [with_cr |-> NewHdrStream(<<CrOnlyLine, hdr, EohLine>>),
                            plain |-> NewHdrStream(<<hdr, EohLine>>),
                            char_is_signed |-> signed]

SpecName == InitName /\ [][NextHdr]_vars

\* ---------------------------------------------------------------------------
\* Properties
\* ---------------------------------------------------------------------------

\* the reply is the answer to a UIDL / POP3-order query
UidlQueryReply == reply.op = "get_special" /\ reply.field \in SpecialFields
\* a sync is running on mailbox object b
Syncing(b) == pc # "idle" /\ cur = b
\* the three policy flags that tolerate unmatched POP3 messages are all off
StrictPolicy ==
    ~set.all_mailboxes /\ ~set.ignore_missing_uidls /\ ~set.ignore_extra_uidls

\* C1: once a mailbox object is Failed it stays Failed: the flag is never
\* cleared, no sync (no enumeration, no matching) runs on it again, and every
\* UIDL / POP3-order query answered on it fails with the temporary error.
C1_FailedIsSticky ==
    /\ [](\A b \in Boxes :
            mbox[b].uidl_sync_failed =>
               /\ ~Syncing(b)
               /\ ~panic
               /\ (UidlQueryReply /\ reply.box = b) =>
                     (reply.result = "fail" /\ reply.error = "temp"))
    /\ [][\A b \in Boxes :
            mbox[b].uidl_sync_failed =>
               /\ mbox'[b].uidl_sync_failed
               /\ imapReads'[b] = imapReads[b]
               /\ matchRuns'[b] = matchRuns[b]]_vars
\* a query is answered on mailbox 1, which failed before mailbox 2 was synced
C1_Witness ==
    /\ pc = "idle" /\ cur = 2 /\ mbox[1].uidl_sync_failed
    /\ UidlQueryReply /\ reply.box = 1 /\ reply.result = "fail"

\* C2: the full sync runs at most once per mailbox object: the IMAP-side array
\* is never read a second time (which would abort the process), and matching
\* is never started a second time.
C2_SyncAtMostOnce ==
    /\ ~panic
    /\ \A b \in Boxes : imapReads[b] <= 1 /\ matchRuns[b] <= 1
\* a query on the synced mailbox 1 is answered after mailbox 2 was synced too
C2_Witness ==
    /\ pc = "idle" /\ cur = 2 /\ mbox[1].uidl_synced /\ mbox[2].uidl_synced
    /\ UidlQueryReply /\ reply.box = 1 /\ reply.result = "mapped"
    /\ imapReads[1] = 1 /\ matchRuns[1] = 1

\* C3: uidl_synced and uidl_sync_failed are never both true; each only ever
\* changes from false to true; and a flag is set only by a sync attempt on that
\* mailbox, which started with both flags false.
C3_FlagsMonotonic ==
    /\ [](\A b \in Boxes :
            /\ ~(mbox[b].uidl_synced /\ mbox[b].uidl_sync_failed)
            /\ (Syncing(b) /\ pc # "return") =>
                  (~mbox[b].uidl_synced /\ ~mbox[b].uidl_sync_failed))
    /\ [][\A b \in Boxes :
            /\ mbox[b].uidl_synced => mbox'[b].uidl_synced
            /\ mbox[b].uidl_sync_failed => mbox'[b].uidl_sync_failed
            /\ (\/ mbox'[b].uidl_synced # mbox[b].uidl_synced
                \/ mbox'[b].uidl_sync_failed # mbox[b].uidl_sync_failed) =>
                  (Syncing(b) /\ pc \in {"add_to_cache", "return"})]_vars
\* one mailbox object ended Synced and the other Failed
C3_Witness ==
    /\ pc = "idle"
    /\ \E a \in Boxes, b \in Boxes :
          mbox[a].uidl_synced /\ mbox[b].uidl_sync_failed

\* C4: a UIDL / POP3-order query is answered only after the sync was attempted
\* on the mailbox (it is Synced or Failed, the IMAP side was read once), and a
\* value taken from the mapping is returned only while the mailbox is Synced.
C4_AnswerAfterSync ==
    UidlQueryReply =>
       /\ ~SyncNeeded(mbox[reply.box])
       /\ imapReads[reply.box] = 1
       /\ reply.result \in {"mapped", "super"} => mbox[reply.box].uidl_synced
       /\ mbox[reply.box].uidl_synced => reply.result \in {"mapped", "super"}
\* the query that triggered the sync is answered from the mapping
C4_Witness ==
    /\ pc = "idle" /\ UidlQueryReply /\ reply.box = cur
    /\ reply.result = "mapped" /\ mbox[cur].uidl_synced
    /\ matchRuns[cur] = 1

\* the POP3 record of the shared array that has this POP3 sequence number
PopBySeq(map, seq) == {i \in 1..Len(map) : map[i].pop3_seq = seq}
\* the IMAP record of a mailbox's array that has this uid
ImapByUid(map, uid) == {i \in 1..Len(map) : map[i].uid = uid}
\* the matching phases of a running session
MatchingPcs ==
    {"assign_cached", "sort_natural", "assign_by_size", "pop3_hdr_hashes",
     "imap_hdr_hashes", "assign_by_hdr_hash", "add_to_cache"}
\* what a synced mailbox object answers for a uid: the UIDL and the POP3 order
MappingOf(b, uid) ==
    LET map == mbox[b].imap_msg_map
        idx == array_bsearch(map, uid)
    IN  IF idx # 0 /\ map[idx].pop3_uidl # NULL
        THEN <<map[idx].pop3_uidl, map[idx].pop3_seq>>
        ELSE <<NULL, 0>>

\* C5: after a successful session every IMAP record with a UIDL and a POP3
\* sequence number names a POP3 record that has the same UIDL and whose
\* imap_uid is this IMAP record's uid.
C5_MatchedPairsAgree ==
    (pc = "idle" /\ mbox[cur].uidl_synced) =>
       \A i \in 1..Len(mbox[cur].imap_msg_map) :
          LET r == mbox[cur].imap_msg_map[i]
          IN  (r.pop3_uidl # NULL /\ r.pop3_seq # 0) =>
                 \A j \in PopBySeq(pop3_uidl_map, r.pop3_seq) :
                    /\ pop3_uidl_map[j].pop3_uidl = r.pop3_uidl
                    /\ pop3_uidl_map[j].imap_uid = r.uid

\* C6: within one session no step of the matching phases changes a POP3
\* record's imap_uid, or an IMAP record's pop3_uidl or pop3_seq, that is
\* already set.
C6_LinksNeverOverwritten ==
    [][(pc \in MatchingPcs /\ pc' \in MatchingPcs \cup {"return"}) =>
          /\ \A i \in 1..Len(pop3_uidl_map) :
                pop3_uidl_map[i].imap_uid # NoLink =>
                   \A j \in PopBySeq(pop3_uidl_map', pop3_uidl_map[i].pop3_seq) :
                      pop3_uidl_map'[j].imap_uid = pop3_uidl_map[i].imap_uid
          /\ \A i \in 1..Len(mbox[cur].imap_msg_map) :
                LET r == mbox[cur].imap_msg_map[i]
                IN  \A j \in ImapByUid(mbox'[cur].imap_msg_map, r.uid) :
                       LET q == mbox'[cur].imap_msg_map[j]
                       IN  /\ r.pop3_uidl # NULL => q.pop3_uidl = r.pop3_uidl
                           /\ r.pop3_seq # 0 => q.pop3_seq = r.pop3_seq]_vars

\* C7: when two mailbox objects were synced one after the other on the same
\* unchanged mailboxes, the second using the cache the first wrote, both answer
\* every uid with the same UIDL and the same POP3 order.
C7_SecondSessionSameMapping ==
    (pc = "idle" /\ nBoxes = 2 /\ mbox[1].uidl_synced /\ mbox[nBoxes].uidl_synced) =>
       \A uid \in Uids : MappingOf(1, uid) = MappingOf(nBoxes, uid)

\* C8: every POP3-side access of a session comes after the session's IMAP
\* enumeration, which is the session's first I/O; and a session whose IMAP
\* enumeration failed has no POP3-side access at all.
C8_ImapEnumBeforePop3 ==
    /\ \A i \in 1..Len(io) :
          io[i].side = "pop3" => (i > 1 /\ io[1] = IoEv("imap", "enum", 0))
    /\ "err_imap_enum" \in log => \A i \in 1..Len(io) : io[i].side # "pop3"
\* a session that went on to the POP3 mailbox after reading the IMAP one
C8_Witness ==
    /\ Len(io) >= 3 /\ io[1] = IoEv("imap", "enum", 0)
    /\ io[2] = IoEv("pop3", "sync", 0) /\ io[3] = IoEv("pop3", "enum", 0)

C10_MissingFailsSession ==
    /\ [][(pc = "assign_by_hdr_hash" /\ StrictPolicy
           /\ MissingUids(pop3_uidl_map') # {}) =>
             (pc' = "return" /\ ret' < 0 /\ "err_missing" \in log')]_vars
    /\ []((pc = "idle" /\ "err_missing" \in log) =>
             /\ mbox[cur].uidl_sync_failed /\ ~mbox[cur].uidl_synced
             /\ (UidlQueryReply /\ reply.box = cur) =>
                   (reply.result = "fail" /\ reply.error = "temp"))
\* the IMAP mailbox has one message less than the POP3 mailbox, phase 3 left
\* one POP3 record unmatched, and a query on the failed mailbox was answered
C10_Witness ==
    /\ pc = "idle" /\ StrictPolicy /\ "err_missing" \in log
    /\ Len(mbox[cur].imap_msg_map) = Len(pop3_uidl_map) - 1
    /\ Cardinality(MissingUids(pop3_uidl_map)) = 1
    /\ UidlQueryReply /\ reply.box = cur /\ reply.result = "fail"

\* the links of the arrays a step starts with are the links of the arrays it
\* leaves: no record loses or changes its imap_uid, pop3_uidl or pop3_seq
LinksKept ==
    /\ \A i \in 1..Len(pop3_uidl_map) :
          pop3_uidl_map[i].imap_uid # NoLink =>
             \E j \in PopBySeq(pop3_uidl_map', pop3_uidl_map[i].pop3_seq) :
                pop3_uidl_map'[j].imap_uid = pop3_uidl_map[i].imap_uid
    /\ \A i \in 1..Len(mbox[cur].imap_msg_map) :
          LET r == mbox[cur].imap_msg_map[i]
          IN  r.pop3_uidl # NULL =>
                 \E j \in ImapByUid(mbox'[cur].imap_msg_map, r.uid) :
                    /\ mbox'[cur].imap_msg_map[j].pop3_uidl = r.pop3_uidl
                    /\ mbox'[cur].imap_msg_map[j].pop3_seq = r.pop3_seq
\* both arrays are in their natural order: POP3 by pop3_seq, IMAP by uid
NaturalOrder(pop, imap) ==
    /\ \A i \in 1..(Len(pop) - 1) : pop[i].pop3_seq < pop[i + 1].pop3_seq
    /\ \A i \in 1..(Len(imap) - 1) : imap[i].uid < imap[i + 1].uid
\* a session with no failing collaborator call has ended
SessionOver == pc = "idle" /\ matchRuns[cur] = 1 /\ fault = NoFault

\* C11: with all_mailboxes set, whatever the other settings and however many
\* POP3 records phase 3 leaves unmatched, phase 3 returns success and logs no
\* missing-UIDL error, and the session ends Synced.
C11_AllMailboxesToleratesMissing ==
    /\ [][(pc = "assign_by_hdr_hash" /\ set.all_mailboxes) =>
             (ret' = 0 /\ pc' = "add_to_cache" /\ "err_missing" \notin log')]_vars
    /\ []((SessionOver /\ set.all_mailboxes) =>
             (mbox[cur].uidl_synced /\ ~mbox[cur].uidl_sync_failed))
\* a Synced mailbox with all_mailboxes set and two POP3 records left unmatched
C11_Witness ==
    /\ SessionOver /\ set.all_mailboxes /\ mbox[cur].uidl_synced
    /\ Cardinality(MissingUids(pop3_uidl_map)) = 2

\* C12: with ignore_extra_uidls set, when phase 3 has matched every IMAP record
\* and POP3 records are left over, phase 3 returns success and logs nothing.
C12_ExtraToleratedSilently ==
    [][(/\ pc = "assign_by_hdr_hash" /\ set.ignore_extra_uidls
        /\ MissingUids(pop3_uidl_map') # {}
        /\ \A i \in 1..Len(mbox'[cur].imap_msg_map) :
              mbox'[cur].imap_msg_map[i].pop3_uidl # NULL
        /\ AllImapMailsFound(pop3_uidl_map', mbox'[cur].imap_msg_map)) =>
          (ret' = 0 /\ log' = log)]_vars

\* C13 as stated: with ignore_missing_uidls set, when phase 3 leaves POP3
\* records unmatched it returns success, logs a warning, keeps every link and
\* leaves both arrays in natural order, and the mailbox becomes Synced.
C13_IgnoreMissingWarns ==
    /\ [][(pc = "assign_by_hdr_hash" /\ set.ignore_missing_uidls
           /\ MissingUids(pop3_uidl_map') # {}) =>
             /\ ret' = 0 /\ pc' = "add_to_cache"
             /\ "warn_missing" \in log'
             /\ LinksKept
             /\ NaturalOrder(pop3_uidl_map', mbox'[cur].imap_msg_map)]_vars
    /\ []((SessionOver /\ set.ignore_missing_uidls) => mbox[cur].uidl_synced)
\* C13, amended: as above, but the warning is logged exactly when
\* all_mailboxes is off; with all_mailboxes set nothing is logged about the
\* unmatched records.
C13_IgnoreMissingProceeds ==
    /\ [][(pc = "assign_by_hdr_hash" /\ set.ignore_missing_uidls
           /\ MissingUids(pop3_uidl_map') # {}) =>
             /\ ret' = 0 /\ pc' = "add_to_cache"
             /\ "err_missing" \notin log'
             /\ "warn_missing" \in log' <=> ~set.all_mailboxes
             /\ LinksKept
             /\ NaturalOrder(pop3_uidl_map', mbox'[cur].imap_msg_map)]_vars
    /\ []((SessionOver /\ set.ignore_missing_uidls) =>
             (mbox[cur].uidl_synced /\ ~mbox[cur].uidl_sync_failed))
\* a Synced mailbox with a partial mapping: one POP3 record linked by phase 3,
\* one left unmatched, the warning logged
C13_Witness ==
    /\ SessionOver /\ set.ignore_missing_uidls /\ ~set.ignore_extra_uidls
    /\ mbox[cur].uidl_synced /\ "warn_missing" \in log
    /\ Cardinality(MissingUids(pop3_uidl_map)) = 1
    /\ \E i \in 1..Len(pop3_uidl_map) :
          pop3_uidl_map[i].imap_uid # NoLink /\ pop3_uidl_map[i].hdr_sha1_set

\* the POP3 messages that have a UIDL
UidlSeqs == {seq \in PopSeqs : popList[seq].uidl # EmptyUidl}

\* C14: a POP3 message with the empty UIDL has no record in pop3_uidl_map
\* (every record is that of a message with a non-empty UIDL, under its own
\* sequence number), no IMAP record is linked to it, and the records counted
\* as missing are records of messages that have a UIDL.
C14_EmptyUidlNeverStored ==
    /\ \A i \in 1..Len(pop3_uidl_map) :
          /\ pop3_uidl_map[i].pop3_uidl # EmptyUidl
          /\ pop3_uidl_map[i].pop3_seq \in UidlSeqs
          /\ popList[pop3_uidl_map[i].pop3_seq].uidl = pop3_uidl_map[i].pop3_uidl
    /\ Len(pop3_uidl_map) <= Cardinality(UidlSeqs)
    /\ \A b \in Boxes : \A i \in 1..Len(mbox[b].imap_msg_map) :
          /\ mbox[b].imap_msg_map[i].pop3_uidl # EmptyUidl
          /\ mbox[b].imap_msg_map[i].pop3_seq \in UidlSeqs \cup {NoLink}
    /\ \A i \in MissingUids(pop3_uidl_map) : pop3_uidl_map[i].pop3_seq \in UidlSeqs
    /\ (UidlSeqs = {} /\ pc = "idle") => ~mbox[cur].uidl_sync_failed
\* the first POP3 message has the empty UIDL and was skipped with a warning,
\* the second one has a record and is linked
C14_Witness ==
    /\ pc = "idle" /\ mbox[cur].uidl_synced /\ "warn_empty_uidl" \in log
    /\ Len(popList) = 2 /\ popList[1].uidl = EmptyUidl
    /\ Len(pop3_uidl_map) = 1 /\ pop3_uidl_map[1].pop3_seq = 2
    /\ pop3_uidl_map[1].imap_uid # NoLink

\* the UIDL of the IMAP record of uid in the array, NULL without one
RecordUidl(map, uid) ==
    IF ImapByUid(map, uid) = {} THEN NULL
    ELSE map[CHOOSE j \in ImapByUid(map, uid) : TRUE].pop3_uidl

\* C15: with the UIDL cache used, the only step that changes the UIDL cache
\* field is the cache write at the end of a successful session: it leaves
\* every value the field already held and stores the record's UIDL where the
\* field was empty, so that afterwards every IMAP record with a UIDL has a
\* cached value.  With skip_uidl_cache the field is never changed, no record
\* takes a UIDL from it, phase 1 changes nothing and no cache write is issued.
C15_UidlCacheWrittenOnce ==
    /\ [][/\ \A uid \in Uids :
                /\ uidlCache[uid] # NULL => uidlCache'[uid] = uidlCache[uid]
                /\ uidlCache'[uid] # uidlCache[uid] =>
                      /\ pc = "add_to_cache" /\ ~set.skip_uidl_cache
                      /\ uidlCache'[uid] = RecordUidl(mbox[cur].imap_msg_map, uid)
          /\ (pc = "add_to_cache" /\ ~set.skip_uidl_cache) =>
                \A uid \in Uids :
                   RecordUidl(mbox[cur].imap_msg_map, uid) # NULL =>
                      uidlCache'[uid] # NULL
          /\ (pc = "imap_map_read" /\ set.skip_uidl_cache) =>
                \A i \in 1..Len(mbox'[cur].imap_msg_map) :
                   mbox'[cur].imap_msg_map[i].pop3_uidl = NULL
          /\ (pc = "assign_cached" /\ set.skip_uidl_cache) =>
                (pop3_uidl_map' = pop3_uidl_map /\ mbox' = mbox)]_vars
    /\ []((pc = "idle" /\ mbox[cur].uidl_synced /\ ~set.skip_uidl_cache) =>
             \A i \in 1..Len(mbox[cur].imap_msg_map) :
                mbox[cur].imap_msg_map[i].pop3_uidl # NULL =>
                   uidlCache[mbox[cur].imap_msg_map[i].uid] # NULL)
    /\ [](set.skip_uidl_cache =>
             \A i \in 1..Len(io) : io[i].op # "cache_write")
\* a session stored the UIDL of one IMAP message in the empty field and left
\* the value that the field of the other message already held
C15_Witness ==
    /\ pc = "idle" /\ mbox[cur].uidl_synced /\ ~set.skip_uidl_cache
    /\ Len(mbox[cur].imap_msg_map) = 2
    /\ \E i, j \in 1..2 :
          /\ mbox[cur].imap_msg_map[i].pop3_seq # NoLink
          /\ uidlCache[mbox[cur].imap_msg_map[i].uid] = mbox[cur].imap_msg_map[i].pop3_uidl
          /\ mbox[cur].imap_msg_map[j].pop3_seq = NoLink
          /\ mbox[cur].imap_msg_map[j].pop3_uidl # NULL
    /\ io[Len(io)].op = "cache_write"

\* the messages of a side whose digest is in the digest cache field
DigestCached(side) ==
    IF side = "pop3" THEN {q \in 1..Len(popList) : popHdrCache[q] # NULL}
    ELSE {q \in 1..Len(imapList) : imapHdrCache[imapList[q].uid] # NULL}
BodyFetched(side, seq) == \E k \in 1..Len(io) : io[k] = IoEv(side, "body", seq)

\* C16, as stated: a digest is in the digest cache field of a message only if
\* the end-of-headers line was found in the stream that was hashed
C16_DigestCachedOnlyWithEoh ==
    \A side \in {"pop3", "imap"} : \A q \in DigestCached(side) :
        Msgs(side)[q].eoh # "none"

\* C16, amended: a digest is in the digest cache field of a message only if
\* the end-of-headers line was found in the header fetch, or the full message
\* was fetched and hashed; in the second case a message without an
\* end-of-headers line is cached too, and a warning is logged for it
C16_DigestCachedAfterFullFetch ==
    \A side \in {"pop3", "imap"} : \A q \in DigestCached(side) :
        IF Msgs(side)[q].eoh = "hdr" THEN ~BodyFetched(side, q)
        ELSE /\ BodyFetched(side, q)
             /\ Msgs(side)[q].eoh = "none" => "warn_truncated" \in log
\* a session cached the digest of a message that has no end-of-headers line
\* and the digest of one that has it only in the full message
C16_Witness ==
    /\ pc = "idle"
    /\ \E side \in {"pop3", "imap"} : \E q, r \in DigestCached(side) :
          /\ Msgs(side)[q].eoh = "none"
          /\ Msgs(side)[r].eoh = "body"
    /\ "warn_truncated" \in log

\* the lines logged for a failure that a search or fetch call returned
FailureLines ==
    {"err_imap_enum", "err_pop3_enum", "err_hdr_stream", "err_hdr_read",
     "err_body_stream", "err_body_read", "err_hash_search", "warn_cached_search"}
\* the failures that the code logs and passes over: a header or body fetch of
\* an expunged message, and the teardown of the search for cached digests
PassedOver == fault.kind \in {"hdr_expunged", "body_expunged", "cached_deinit"}

\* C17, as stated: after any failure of a search or fetch call during a
\* session (enumeration, size, UIDL, header or body fetch, search teardown) the
\* session ends Failed and not Synced
C17_EveryFailurePropagated ==
    (pc = "idle" /\ log \cap FailureLines # {}) =>
        (mbox[cur].uidl_sync_failed /\ ~mbox[cur].uidl_synced)

\* C17, amended: after a failure of a search or fetch call during a session,
\* other than a header or body fetch that reports the message expunged and the
\* teardown of the search for cached digests, the session returns failure and
\* ends Failed and not Synced
C17_FailurePropagatedUnlessPassedOver ==
    (log \cap FailureLines # {} /\ ~PassedOver) =>
        /\ pc = "return" => ret < 0
        /\ pc = "idle" => (mbox[cur].uidl_sync_failed /\ ~mbox[cur].uidl_synced)
\* a session that reached the header fetches failed on one of them
C17_Witness ==
    /\ pc = "idle" /\ ~PassedOver /\ mbox[cur].uidl_sync_failed
    /\ log \cap {"err_hdr_read", "err_body_stream", "err_hash_search"} # {}
    /\ \E k \in 1..Len(io) : io[k].op = "hdr"

\* sizes are checked, both mailboxes have the same number of messages with
\* pairwise equal sizes, and no two adjacent POP3 messages have the same size
SameSizesInOrder ==
    /\ ~set.skip_size_check
    /\ Len(popList) = Len(imapList)
    /\ \A i \in 1..Len(popList) : popList[i].size = imapList[i].size
    /\ \A i \in 1..(Len(popList) - 1) : popList[i].size # popList[i + 1].size
NoCachedUidls(imap) == \A i \in 1..Len(imap) : imap[i].pop3_uidl = NULL
NoEmptyUidl == \A i \in 1..Len(popList) : popList[i].uidl # EmptyUidl
\* position i of the one array is linked to position i of the other, for all
\* the messages
LinkedInOrder(pop, imap) ==
    /\ Len(pop) = Len(popList) /\ Len(imap) = Len(imapList)
    /\ \A i \in 1..Len(pop) :
          /\ pop[i].pop3_seq = i /\ imap[i].uid = imapList[i].uid
          /\ pop[i].imap_uid = imap[i].uid
          /\ imap[i].pop3_seq = i
          /\ imap[i].pop3_uidl = popList[i].uidl
NoHeaderFetched == \A k \in 1..Len(io) : io[k].op \notin {"hdr", "body"}

FirstTwoSameSize == Len(popList) >= 2 /\ popList[1].size = popList[2].size
\* every message has a digest that no other message of its side has and that
\* exactly one message of the other side has
DigestBijection ==
    /\ \A i, j \in 1..Len(popList) : popList[i].dig = popList[j].dig => i = j
    /\ \A i, j \in 1..Len(imapList) : imapList[i].dig = imapList[j].dig => i = j
    /\ {popList[i].dig : i \in 1..Len(popList)}
          = {imapList[i].dig : i \in 1..Len(imapList)}
NoUidlCached == \A uid \in DOMAIN uidlCache : uidlCache[uid] = NULL
\* every POP3 message has a record that is linked to the record of the IMAP
\* message with the identical digest, and every IMAP record is linked
MappedByDigest(pop, imap) ==
    /\ Len(pop) = Len(popList) /\ Len(imap) = Len(imapList)
    /\ \A i \in 1..Len(pop) : \E j \in 1..Len(imap), k \in 1..Len(imapList) :
          /\ imap[j].uid = pop[i].imap_uid /\ imapList[k].uid = imap[j].uid
          /\ imap[j].pop3_seq = pop[i].pop3_seq
          /\ imap[j].pop3_uidl = pop[i].pop3_uidl
          /\ pop[i].pop3_uidl = popList[pop[i].pop3_seq].uidl
          /\ imapList[k].dig = popList[pop[i].pop3_seq].dig
    /\ \A j \in 1..Len(imap) : imap[j].pop3_seq # NoLink

SameSizeUniqueDigests == FirstTwoSameSize /\ DigestBijection /\ NoEmptyUidl

C20_CrOnlyLineEndsHeader ==
    (HdrStreamDone(hdr_stream.with_cr) /\ HdrStreamDone(hdr_stream.plain)) =>
        /\ hdr_stream.with_cr.out = hdr_stream.plain.out
        /\ hdr_stream.with_cr.ctx.have_eoh /\ hdr_stream.plain.ctx.have_eoh
\* both streams were read to the end: a line of L was written, and after the
\* CR-only line came a header that would have been written without it
C20_Witness ==
    /\ HdrStreamDone(hdr_stream.with_cr) /\ HdrStreamDone(hdr_stream.plain)
    /\ Len(hdr_stream.plain.out) = 2
    /\ hdr_stream.with_cr.ctx.stop /\ ~hdr_stream.plain.ctx.stop
    /\ Len(hdr_stream.with_cr.input) = 4
    /\ hdr_stream.with_cr.input[3] = HdrLine(<<LetterA>>, 1, <<LetterA>>, FALSE, FALSE)

\* no two IMAP records carry the same cached UIDL
CachedUidlsDistinct(imap) ==
    \A i, j \in 1..Len(imap) :
        (imap[i].pop3_uidl # NULL /\ imap[i].pop3_uidl = imap[j].pop3_uidl) => i = j
\* the IMAP record j is linked to a POP3 record that has its UIDL
LinkedByUidl(pop, imap, j) ==
    \E i \in 1..Len(pop) :
        /\ pop[i].pop3_uidl = imap[j].pop3_uidl
        /\ imap[j].pop3_seq = pop[i].pop3_seq
        /\ pop[i].imap_uid = imap[j].uid

\* C21: with the UIDL cache used, phase 1 leaves every IMAP record whose
\* cached UIDL is the UIDL of some POP3 record linked to a POP3 record with
\* that UIDL, pop3_seq and imap_uid set on the two sides (stated for IMAP
\* records that carry pairwise different cached UIDLs).
C21_CachedUidlsLinked ==
    [][(pc = "assign_cached" /\ ~set.skip_uidl_cache
        /\ CachedUidlsDistinct(mbox[cur].imap_msg_map)) =>
          \A j \in 1..Len(mbox'[cur].imap_msg_map) :
             (/\ mbox'[cur].imap_msg_map[j].pop3_uidl # NULL
              /\ \E i \in 1..Len(pop3_uidl_map') :
                    pop3_uidl_map'[i].pop3_uidl = mbox'[cur].imap_msg_map[j].pop3_uidl)
             => LinkedByUidl(pop3_uidl_map', mbox'[cur].imap_msg_map, j)]_vars

\* the records at position i of the two arrays are matched to each other
MatchedAt(pop, imap, i) ==
    /\ pop[i].pop3_uidl = imap[i].pop3_uidl
    /\ pop[i].imap_uid = imap[i].uid
    /\ imap[i].pop3_seq = pop[i].pop3_seq
\* position i fails one of phase 2's conditions: a cached UIDL that differs,
\* a size mismatch, the size check disabled, or the next POP3 record having
\* the same size
StopsAt(pop, imap, i) ==
    IF imap[i].pop3_uidl # NULL THEN imap[i].pop3_uidl # pop[i].pop3_uidl
    ELSE \/ pop[i].size # imap[i].psize
         \/ set.skip_size_check
         \/ (i + 1 <= Len(pop) /\ pop[i].size = pop[i + 1].size)

\* C22: phase 2 is prefix-stable: when it stops at index k (first_unfound_idx),
\* the records at every index below k are matched to each other (equal UIDL,
\* imap_uid and pop3_seq set on the two sides), and if k is below both counts
\* the records at index k fail one of the stop conditions (stated for IMAP
\* records that carry pairwise different cached UIDLs).
C22_BySizePrefixStable ==
    [][(pc = "assign_by_size" /\ CachedUidlsDistinct(mbox[cur].imap_msg_map)) =>
          LET k == mbox'[cur].first_unfound_idx
              pop == pop3_uidl_map'
              imap == mbox'[cur].imap_msg_map
          IN  /\ k <= Len(pop) /\ k <= Len(imap)
              /\ \A i \in 1..k : MatchedAt(pop, imap, i)
              /\ (k < Len(pop) /\ k < Len(imap)) =>
                    StopsAt(pop3_uidl_map, mbox[cur].imap_msg_map, k + 1)]_vars

\* phase 2 links position i by size in this step
LinksBySizeAt(i) ==
    /\ mbox[cur].imap_msg_map[i].pop3_uidl = NULL
    /\ mbox'[cur].imap_msg_map[i].pop3_uidl # NULL

\* C23: phase 2 never links position i by size when the sizes at position i
\* differ, when the size check is disabled, or when there is a POP3 record at
\* position i+1 with the size of POP3 record i, also when there are fewer IMAP
\* records than POP3 records.
C23_NoLinkBySizeWhenAmbiguous ==
    [][pc = "assign_by_size" =>
          \A i \in 1..Min(Len(pop3_uidl_map), Len(mbox[cur].imap_msg_map)) :
             LinksBySizeAt(i) =>
                /\ pop3_uidl_map[i].size = mbox[cur].imap_msg_map[i].psize
                /\ ~set.skip_size_check
                /\ ~(i + 1 <= Len(pop3_uidl_map)
                     /\ pop3_uidl_map[i].size = pop3_uidl_map[i + 1].size)]_vars

\* a POP3 record that phase 3 may link: digest set, not matched yet; and the
\* same for an IMAP record
PopOpen(p) == p.hdr_sha1_set /\ p.imap_uid = NoLink
ImapOpen(m) == m.hdr_sha1_set /\ m.pop3_uidl = NULL

\* C24: phase 3 links a POP3 record and an IMAP record only if both had a
\* digest set, the digests are equal and both were unmatched before; it
\* changes no record otherwise; and it leaves no unmatched POP3 record and
\* unmatched IMAP record, both with a digest, whose digests are equal.
C24_HdrHashLinksEqualDigests ==
    [][pc = "assign_by_hdr_hash" =>
          /\ \A i \in 1..Len(pop3_uidl_map) :
                \E i2 \in PopBySeq(pop3_uidl_map', pop3_uidl_map[i].pop3_seq) :
                   LET p == pop3_uidl_map[i]
                       p2 == pop3_uidl_map'[i2]
                   IN  IF p2 = p THEN TRUE
                       ELSE /\ PopOpen(p)
                            /\ p2 = [p EXCEPT !.imap_uid = p2.imap_uid]
                            /\ \E j \in ImapByUid(mbox[cur].imap_msg_map, p2.imap_uid) :
                                  LET m == mbox[cur].imap_msg_map[j]
                                  IN  /\ ImapOpen(m) /\ m.hdr_sha1 = p.hdr_sha1
                                      /\ \E j2 \in ImapByUid(mbox'[cur].imap_msg_map, m.uid) :
                                            mbox'[cur].imap_msg_map[j2] =
                                               [m EXCEPT !.pop3_uidl = p.pop3_uidl,
                                                         !.pop3_seq = p.pop3_seq]
          /\ \A j \in 1..Len(mbox[cur].imap_msg_map) :
                \E j2 \in ImapByUid(mbox'[cur].imap_msg_map, mbox[cur].imap_msg_map[j].uid) :
                   LET m == mbox[cur].imap_msg_map[j]
                       m2 == mbox'[cur].imap_msg_map[j2]
                   IN  IF m2 = m THEN TRUE
                       ELSE /\ ImapOpen(m)
                            /\ \E i2 \in PopBySeq(pop3_uidl_map', m2.pop3_seq) :
                                  /\ pop3_uidl_map'[i2].imap_uid = m.uid
                                  /\ pop3_uidl_map'[i2].pop3_uidl = m2.pop3_uidl
          /\ Len(pop3_uidl_map') = Len(pop3_uidl_map)
          /\ Len(mbox'[cur].imap_msg_map) = Len(mbox[cur].imap_msg_map)
          /\ \A i \in 1..Len(pop3_uidl_map'), j \in 1..Len(mbox'[cur].imap_msg_map) :
                (PopOpen(pop3_uidl_map'[i]) /\ ImapOpen(mbox'[cur].imap_msg_map[j])) =>
                   pop3_uidl_map'[i].hdr_sha1 # mbox'[cur].imap_msg_map[j].hdr_sha1]_vars
\* phase 3 ended on two POP3 records with the same digest: it paired one of
\* them with the IMAP record of that digest and left the other one unmatched
C24_Witness ==
    /\ pc = "return" /\ "err_missing" \in log
    /\ \E i, k \in 1..Len(pop3_uidl_map) :
          /\ i # k
          /\ pop3_uidl_map[i].hdr_sha1_set /\ pop3_uidl_map[k].hdr_sha1_set
          /\ pop3_uidl_map[i].hdr_sha1 = pop3_uidl_map[k].hdr_sha1
          /\ PopOpen(pop3_uidl_map[k])
          /\ \E j \in ImapByUid(mbox[cur].imap_msg_map, pop3_uidl_map[i].imap_uid) :
                /\ mbox[cur].imap_msg_map[j].hdr_sha1_set
                /\ mbox[cur].imap_msg_map[j].hdr_sha1 = pop3_uidl_map[i].hdr_sha1
                /\ mbox[cur].imap_msg_map[j].pop3_seq = pop3_uidl_map[i].pop3_seq

\* the policy block concludes "all IMAP messages were found"
ConcludesAllImapFound(pop, imap) ==
    /\ MissingUids(pop) # {} /\ ~set.all_mailboxes
    /\ AllImapMailsFound(pop, imap)

\* C25: whenever phase 3 concludes that all IMAP messages were found, every
\* IMAP record is matched to a POP3 record (some POP3 record's imap_uid is its
\* uid), and the POP3 mailbox merely has more messages.
C25_AllImapFoundIsTrue ==
    [][(pc = "assign_by_hdr_hash"
        /\ ConcludesAllImapFound(pop3_uidl_map', mbox'[cur].imap_msg_map)) =>
          \A j \in 1..Len(mbox'[cur].imap_msg_map) :
             \E i \in 1..Len(pop3_uidl_map') :
                pop3_uidl_map'[i].imap_uid = mbox'[cur].imap_msg_map[j].uid]_vars


\* C26: for each message hashed in phase 3 the full-body fetch is issued
\* exactly when the header fetch succeeded and its stream ended without the
\* end-of-headers line; it is issued once, after the header fetch, and before
\* any digest is recorded for the message (a message whose body fetch fails
\* gets no digest: neither its hdr_sha1_set nor its cache field is set); a
\* message whose header fetch had the end-of-headers line gets no body fetch.
\* A message whose digest is taken from the cache field is not hashed.
C26_BodyFetchOnlyWithoutEoh ==
    [][(pc = "pop3_hdr_hashes" \/ pc = "imap_hdr_hashes") =>
        (LET pop3 == pc = "pop3_hdr_hashes"
             side == IF pop3 THEN "pop3" ELSE "imap"
             new == SubSeq(io', Len(io) + 1, Len(io'))
             old == IF pop3 THEN pop3_uidl_map ELSE mbox[cur].imap_msg_map
             now == IF pop3 THEN pop3_uidl_map' ELSE mbox'[cur].imap_msg_map
             cached == IF pop3 THEN popHdrCache ELSE imapHdrCache
             cache == IF pop3 THEN popHdrCache' ELSE imapHdrCache'
             Hdr(q) == {k \in 1..Len(new) : new[k] = IoEv(side, "hdr", q)}
             Body(q) == {k \in 1..Len(new) : new[k] = IoEv(side, "body", q)}
             HdrBad(q) == \/ Fails("hdr_stream", side, q)
                          \/ Fails("hdr_expunged", side, q)
                          \/ Fails("hdr_read", side, q)
             BodyBad(q) == \/ Fails("body_stream", side, q)
                           \/ Fails("body_expunged", side, q)
                           \/ Fails("body_read", side, q)
         IN  \A q \in 1..Len(Msgs(side)) :
                /\ Cardinality(Hdr(q)) <= 1 /\ Cardinality(Body(q)) <= 1
                /\ (Body(q) # {}) <=>
                      (Hdr(q) # {} /\ ~HdrBad(q) /\ Msgs(side)[q].eoh # "hdr")
                /\ \A h \in Hdr(q), b \in Body(q) : h < b
                /\ (Body(q) # {} /\ BodyBad(q)) =>
                      /\ cache[CacheKey(side, q)] = NULL
                      /\ q <= Len(now) => ~now[q].hdr_sha1_set
                /\ (q <= Len(now) /\ now[q].hdr_sha1_set /\ ~old[q].hdr_sha1_set
                       /\ cached[CacheKey(side, q)] = NULL
                       /\ Msgs(side)[q].eoh # "hdr") =>
                      Body(q) # {})]_vars
\* phase 3 hashed two POP3 messages: the first had its end-of-headers line
\* only in the body fetch, the second in the header fetch
C26_Witness ==
    /\ pc = "imap_hdr_hashes" /\ Len(popList) = 2
    /\ popList[1].eoh = "body" /\ popList[2].eoh = "hdr"
    /\ \E k \in 1..Len(io) : io[k] = IoEv("pop3", "body", 1)
    /\ \E k \in 1..Len(io) : io[k] = IoEv("pop3", "hdr", 2)
    /\ ~\E k \in 1..Len(io) : io[k] = IoEv("pop3", "body", 2)
    /\ pop3_uidl_map[1].hdr_sha1_set /\ pop3_uidl_map[2].hdr_sha1_set


\* C27: when a message hashed in phase 3 has no end-of-headers line even in
\* its full body and neither fetch fails, the digest of what was read is
\* recorded for it (hdr_sha1_set, and the cache field), the truncation
\* warning is logged, and the hashing does not fail because of it: if it
\* fails, a call on another message or the search teardown failed.
C27_TruncatedDigestIsUsed ==
    [][(pc = "pop3_hdr_hashes" \/ pc = "imap_hdr_hashes") =>
        (LET pop3 == pc = "pop3_hdr_hashes"
             side == IF pop3 THEN "pop3" ELSE "imap"
             new == SubSeq(io', Len(io) + 1, Len(io'))
             now == IF pop3 THEN pop3_uidl_map' ELSE mbox'[cur].imap_msg_map
             cache == IF pop3 THEN popHdrCache' ELSE imapHdrCache'
         IN  \A q \in 1..Len(Msgs(side)) :
                (/\ \E k \in 1..Len(new) : new[k] = IoEv(side, "body", q)
                 /\ Msgs(side)[q].eoh = "none"
                 /\ ~(fault.side = side /\ fault.at = q)) =>
                   /\ now[q].hdr_sha1_set
                   /\ now[q].hdr_sha1 = Msgs(side)[q].dig
                   /\ cache[CacheKey(side, q)] = Msgs(side)[q].dig
                   /\ "warn_truncated" \in log'
                   /\ ret' < 0 => (fault.side = side /\ fault.at # q))]_vars
\* the session ended Synced although a POP3 message had no end-of-headers
\* line: it was hashed from its body and linked to an IMAP message by digest
C27_Witness ==
    /\ pc = "idle" /\ mbox[1].uidl_synced /\ "warn_truncated" \in log
    /\ \E i \in 1..Len(pop3_uidl_map) :
          /\ popList[pop3_uidl_map[i].pop3_seq].eoh = "none"
          /\ pop3_uidl_map[i].hdr_sha1_set
          /\ pop3_uidl_map[i].imap_uid # NoLink
          /\ \E k \in 1..Len(io) :
                io[k] = IoEv("pop3", "body", pop3_uidl_map[i].pop3_seq)


\* the header of the plain stream was filtered, and what became of it
NameFiltered == hdr_stream.plain.pos > 1
NameExcluded ==
    Len(hdr_stream.plain.out) = IF HdrStreamDone(hdr_stream.plain) THEN 1 ELSE 0
\* C29: a header line (with a colon, not a continuation, not of the skip-set)
\* is excluded if and only if its name holds a byte <= 0x20 or >= 0x7F, for
\* every byte 0x01..0xFF, whether the build's char is signed or unsigned.
C29_InvalidNameExcluded ==
    NameFiltered =>
       (NameExcluded <=>
          \E i \in 1..hdr_stream.plain.input[1].name_len :
             hdr_stream.plain.input[1].name[i] \notin 33..126)


\* a line with empty name, empty separator and a value of CR bytes only
IsCrOnly(hdr) ==
    /\ ~hdr.eoh /\ hdr.name_len = 0 /\ hdr.middle_len = 0 /\ hdr.value_len > 0
    /\ \A i \in 1..hdr.value_len : hdr.value[i] = CR
\* the stream st has a line left, and the line
HasLine(st) == ~HdrStreamDone(st)
NextLine(st) == st.input[st.pos]

\* C28: in either stream, the stop flag is set by a CR-only line and never
\* reset; the CR-only line and every header line read while stop is set add
\* nothing to the output; and the end-of-headers line sets have_eoh (and is
\* written as the empty line) also when stop is set.
C28_StopExcludesTheRest ==
    [][\A w \in {"with_cr", "plain"} :
          (HasLine(hdr_stream[w]) /\ hdr_stream'[w] # hdr_stream[w]) =>
             /\ hdr_stream[w].ctx.stop => hdr_stream'[w].ctx.stop
             /\ IsCrOnly(NextLine(hdr_stream[w])) => hdr_stream'[w].ctx.stop
             /\ (/\ ~NextLine(hdr_stream[w]).eoh
                 /\ hdr_stream'[w].ctx.stop) =>
                   hdr_stream'[w].out = hdr_stream[w].out
             /\ NextLine(hdr_stream[w]).eoh =>
                   /\ hdr_stream'[w].ctx.have_eoh
                   /\ Len(hdr_stream'[w].out) = Len(hdr_stream[w].out) + 1]_vars
\* a stream of a CR-only line, a header that is written when it comes first,
\* and the end-of-headers line was filtered to the empty line alone
C28_Witness ==
    /\ HdrStreamDone(hdr_stream.with_cr)
    /\ hdr_stream.with_cr.input =
          <<CrOnlyLine, HdrLine(<<LetterA>>, 1, <<LetterA>>, FALSE, FALSE), EohLine>>
    /\ hdr_stream.with_cr.ctx.stop /\ hdr_stream.with_cr.ctx.have_eoh
    /\ Len(hdr_stream.with_cr.out) = 1
    /\ HdrStreamDone(hdr_stream.plain) /\ Len(hdr_stream.plain.out) = 1

\* what the header filter hands to the callback in *matched for the next line
\* of st
MatchedBefore(st) ==
    IF NextLine(st).eoh THEN TRUE
    ELSE IF NextLine(st).continued THEN st.prev_matched
    ELSE NextLine(st).listed

\* C30: for every header line read, the callback leaves it excluded if it is
\* a non-continuation line without ':' or a continuation line of spaces and
\* tabs only, whatever the decision was before; and whenever the decision
\* before the callback was "excluded" it still is after it, so that such a
\* line adds nothing to the output.
C30_CallbackOnlyExcludes ==
    [][\A w \in {"with_cr", "plain"} :
          (HasLine(hdr_stream[w]) /\ hdr_stream'[w] # hdr_stream[w]
             /\ ~NextLine(hdr_stream[w]).eoh) =>
            (LET st == hdr_stream[w]
                 hdr == NextLine(st)
                 NoColon == ~hdr.continued /\ hdr.middle_len = 0
                 Blank == /\ hdr.continued
                          /\ \A i \in 1..hdr.value_len : hdr.value[i] \in {SP, TAB}
             IN  /\ \A m \in BOOLEAN :
                       LET r == pop3_header_filter_callback(hdr, m, st.ctx)
                       IN  /\ (NoColon \/ Blank) => r.matched
                           /\ m => r.matched
                 /\ (NoColon \/ Blank \/ MatchedBefore(st)) =>
                       hdr_stream'[w].out = st.out)]_vars
\* a line without ':' and a continuation line with text after it: the callback
\* excluded the first and left the second excluded, so that only the empty
\* line was written
C30_Witness ==
    /\ HdrStreamDone(hdr_stream.plain)
    /\ Len(hdr_stream.plain.input) = 3
    /\ ~hdr_stream.plain.input[1].continued
    /\ hdr_stream.plain.input[1].middle_len = 0
    /\ ~IsCrOnly(hdr_stream.plain.input[1])
    /\ hdr_stream.plain.input[2].continued
    /\ ~header_value_want_skip(hdr_stream.plain.input[2])
    /\ ~hdr_stream.plain.ctx.stop
    /\ Len(hdr_stream.plain.out) = 1


\* C31: natural order is in place wherever it is relied on: phase 2 starts
\* with the POP3 array in ascending pop3_seq order and the IMAP array in
\* ascending uid order, in every session (also one that reuses a POP3 array an
\* earlier session left in another order); and the IMAP array of a Synced
\* mailbox, the only one a query searches, is in ascending uid order, so that
\* the binary search finds every record by its uid.
C31_NaturalOrderWhereRelied ==
    /\ pc = "assign_by_size" =>
          NaturalOrder(pop3_uidl_map, mbox[cur].imap_msg_map)
    /\ \A b \in Boxes :
          mbox[b].uidl_synced =>
             /\ NaturalOrder(<<>>, mbox[b].imap_msg_map)
             /\ \A j \in 1..Len(mbox[b].imap_msg_map) :
                   array_bsearch(mbox[b].imap_msg_map,
                                 mbox[b].imap_msg_map[j].uid) = j
\* the second session starts phase 2 on the POP3 array that the first, failed
\* session left sorted by digest, against the order of the sequence numbers
C31_Witness ==
    /\ pc = "assign_by_size" /\ cur = 2 /\ mbox[1].uidl_sync_failed
    /\ Len(pop3_uidl_map) = 2
    /\ pop3_uidl_map[1].hdr_sha1_set /\ pop3_uidl_map[2].hdr_sha1_set
    /\ pop3_uidl_map[1].hdr_sha1 > pop3_uidl_map[2].hdr_sha1
    /\ Len(mbox[2].imap_msg_map) = 2


\* C32: a session that finds the storage's POP3 array already created does
\* not enumerate the POP3 mailbox again (no POP3 request is issued, the
\* records stay the same ones) and sets every record's imap_uid back to 0;
\* phase 1 of every session starts with no POP3 record linked.
C32_ReusedSetIsReset ==
    /\ [](pc = "assign_cached" =>
            \A i \in 1..Len(pop3_uidl_map) : pop3_uidl_map[i].imap_uid = NoLink)
    /\ [][(pc = "pop3_map_read" /\ pop3_created) =>
            /\ pc' = "assign_cached" /\ io' = io /\ pop3_created'
            /\ Len(pop3_uidl_map') = Len(pop3_uidl_map)
            /\ \A i \in 1..Len(pop3_uidl_map) :
                  pop3_uidl_map'[i] = [pop3_uidl_map[i] EXCEPT !.imap_uid = NoLink]]_vars
\* the second session is about to start phase 1 on the POP3 array whose
\* records the first session linked to IMAP messages
C32_Witness ==
    /\ pc = "assign_cached" /\ cur = 2 /\ mbox[1].uidl_synced
    /\ Len(pop3_uidl_map) = 2
    /\ \A i \in 1..2 :
          \E j \in 1..Len(mbox[1].imap_msg_map) :
             mbox[1].imap_msg_map[j].pop3_seq = pop3_uidl_map[i].pop3_seq
    /\ \A k \in 1..Len(io) : io[k].side # "pop3"


\* C33: a get_special request for a field other than the backend UIDL and
\* the POP3 order is answered by the underlying implementation, whatever the
\* state of the mailbox (never synced, Synced or Failed); it starts no sync
\* and issues no request, and leaves the flags and both record arrays as
\* they were.
C33_OtherFieldPassesThrough ==
    [][(reply'.op = "get_special" /\ reply'.field = "other" /\ reply' # reply) =>
          /\ pc = "idle" /\ pc' = "idle"
          /\ reply'.result = "super" /\ reply'.error = "none"
          /\ mbox' = mbox /\ pop3_uidl_map' = pop3_uidl_map
          /\ pop3_created' = pop3_created
          /\ imapReads' = imapReads /\ matchRuns' = matchRuns
          /\ io' = io /\ log' = log]_vars
\* another field was asked of a mailbox that was never synced, and is not
C33_Witness ==
    /\ reply.op = "get_special" /\ reply.field = "other"
    /\ reply.result = "super" /\ pc = "idle"
    /\ SyncNeeded(mbox[reply.box]) /\ imapReads[reply.box] = 0
    /\ ~mbox[reply.box].created


\* C34: the pop3_seq values of the stored POP3 records are unique and dense:
\* they are exactly 1..N, N the number of stored records, for every POP3
\* listing, also one with messages whose UIDL is empty.
C34_PopSeqDense ==
    /\ \A i, j \in 1..Len(pop3_uidl_map) :
          pop3_uidl_map[i].pop3_seq = pop3_uidl_map[j].pop3_seq => i = j
    /\ {pop3_uidl_map[i].pop3_seq : i \in 1..Len(pop3_uidl_map)}
          = 1..Len(pop3_uidl_map)


\* the arrays phase 1 and phase 3 are about to merge, in every order the
\* sort can leave them in
Phase1Arrays ==
    {<<p, m>> : p \in array_sort(pop3_uidl_map, "pop3_uidl_map_uidl_cmp"),
                m \in array_sort(mbox[cur].imap_msg_map, "imap_msg_map_uidl_cmp")}
Phase3Arrays ==
    {<<p, m>> : p \in array_sort(pop3_uidl_map, "pop3_uidl_map_hdr_cmp"),
                m \in array_sort(mbox[cur].imap_msg_map, "imap_msg_map_hdr_cmp")}
\* the phase-1 loops make at most one strcmp() call per POP3 record and one
\* per IMAP record
Phase1Terminates ==
    pc = "assign_cached" =>
       \A a \in Phase1Arrays :
          CachedCompares(1, 1, a[1], a[2]) <= Len(a[1]) + Len(a[2])
\* the phase-3 loop ends within one iteration per record and one per link,
\* with the arrays the phase leaves behind
Phase3Terminates ==
    pc = "assign_by_hdr_hash" =>
       \A a \in Phase3Arrays :
          LET max == Len(a[1]) + Len(a[2]) + Min(Len(a[1]), Len(a[2]))
              r == HdrHashRun([pop3_idx |-> 1, imap_idx |-> 1, pop |-> a[1],
                               imap |-> a[2], n |-> 0], max)
          IN  /\ r.n <= max
              /\ r.pop = HdrHashLoop(1, 1, a[1], a[2]).pop
              /\ r.imap = HdrHashLoop(1, 1, a[1], a[2]).imap
\* a sync attempt is under way, and has ended
SyncRunning == pc # "idle"
SyncEnded ==
    pc = "idle" /\ (mbox[cur].uidl_synced \/ mbox[cur].uidl_sync_failed)

\* C35: every sync attempt that has started ends with the mailbox Synced or
\* Failed when each step is taken once the one before it has returned; the
\* merge loops of phase 1 and of phase 3 end within a number of iterations
\* bounded by the sizes of the arrays, also with the same UIDL cached on
\* two IMAP records and with equal digests.
C35_SyncTerminates ==
    /\ []Phase1Terminates
    /\ []Phase3Terminates
    /\ []~panic
    /\ SyncRunning ~> SyncEnded
\* phase 3 is about to merge two POP3 and two IMAP records that all carry
\* the same digest: a link is made and both cursors go on
C35_Witness ==
    /\ pc = "assign_by_hdr_hash"
    /\ Len(pop3_uidl_map) = 2 /\ Len(mbox[cur].imap_msg_map) = 2
    /\ \A i \in 1..2 :
          /\ pop3_uidl_map[i].hdr_sha1_set /\ pop3_uidl_map[i].hdr_sha1 = 1
          /\ pop3_uidl_map[i].imap_uid = NoLink
          /\ mbox[cur].imap_msg_map[i].hdr_sha1_set
          /\ mbox[cur].imap_msg_map[i].hdr_sha1 = 1
          /\ mbox[cur].imap_msg_map[i].pop3_uidl = NULL


\* C36: whenever a POP3-order query is answered from the mapping, the value
\* is at least 1 and is the pop3_seq of a POP3 record whose UIDL is the one a
\* backend-UIDL query returns for the same uid, also when the IMAP record's
\* UIDL came from the cache field.
C36_OrderBelongsToUidl ==
    (reply.op = "get_special" /\ reply.field = "pop3_order"
       /\ reply.result = "mapped") =>
      /\ reply.value >= 1
      /\ \E i \in 1..Len(pop3_uidl_map) :
            /\ pop3_uidl_map[i].pop3_seq = reply.value
            /\ pop3_uidl_map[i].pop3_uidl =
                  SpecialReply(reply.box, "uidl_backend", reply.uid, 0).value


\* C37: after a successful session the mapping is one-to-one: no two IMAP
\* records carry the same POP3 UIDL and pop3_seq, and every POP3 record with an
\* imap_uid is pointed back to by exactly the IMAP record of that uid; also when
\* the cache holds a UIDL at another position or the same UIDL twice.
C37_MappingOneToOne ==
    (pc = "idle" /\ mbox[cur].uidl_synced) =>
       LET imap == mbox[cur].imap_msg_map
           PointsTo(j, i) ==
               /\ imap[j].pop3_uidl = pop3_uidl_map[i].pop3_uidl
               /\ imap[j].pop3_seq = pop3_uidl_map[i].pop3_seq
       IN  /\ \A i, j \in 1..Len(imap) :
                 (i # j /\ imap[i].pop3_uidl # NULL /\ imap[j].pop3_uidl # NULL) =>
                    <<imap[i].pop3_uidl, imap[i].pop3_seq>> #
                    <<imap[j].pop3_uidl, imap[j].pop3_seq>>
           /\ \A i \in 1..Len(pop3_uidl_map) :
                 pop3_uidl_map[i].imap_uid # NoLink =>
                    \A j \in 1..Len(imap) :
                       PointsTo(j, i) <=> imap[j].uid = pop3_uidl_map[i].imap_uid


\* C38: every session that reaches the matching phases works on a POP3 record
\* set produced by a fully successful enumeration: the POP3 enumeration of the
\* storage did not fail, and the set holds one record for every POP3 message
\* with a UIDL; a set left empty or partly filled by a failed enumeration is
\* never matched against by a later session.
C38_MatchingOnCompleteEnumeration ==
    pc \in MatchingPcs =>
       /\ PopEnumRet = 0
       /\ \A seq \in PopSeqs :
             popList[seq].uidl # EmptyUidl => PopBySeq(pop3_uidl_map, seq) # {}


\* C39: the digest stored in a POP3 record is the digest of the POP3 message
\* whose sequence number is the record's pop3_seq, and phase 3's POP3 digest
\* reading sets the digest of exactly the records at index first_unfound_idx
\* and beyond (of all records with all_mailboxes); also when messages with an
\* empty UIDL were dropped, so that index and sequence number differ.
C39_DigestOfOwnMessage ==
    /\ [](\A i \in 1..Len(pop3_uidl_map) :
             pop3_uidl_map[i].hdr_sha1_set =>
                pop3_uidl_map[i].hdr_sha1 = popList[pop3_uidl_map[i].pop3_seq].dig)
    /\ [][(pc = "pop3_hdr_hashes" /\ ~pop3_all_hdr_sha1_set /\ ret' = 0) =>
             \A i \in 1..Len(pop3_uidl_map) :
                (pop3_uidl_map'[i].hdr_sha1_set /\ ~pop3_uidl_map[i].hdr_sha1_set)
                <=> (/\ ~pop3_uidl_map[i].hdr_sha1_set
                     /\ i >= (IF set.all_mailboxes THEN 1
                              ELSE mbox[cur].first_unfound_idx + 1))]_vars


\* C40: every header-hash request passes a well-formed sequence range to the
\* search: its first sequence, first_unfound_idx + 1 (1 for the POP3 side with
\* all_mailboxes), is not greater than the number of records of that side;
\* also when phase 2 matched every record of the shorter side, or one side is
\* empty.
C40_HashRangeWellFormed ==
    /\ (pc = "pop3_hdr_hashes" /\ ~pop3_all_hdr_sha1_set) =>
          (IF set.all_mailboxes THEN 1 ELSE mbox[cur].first_unfound_idx + 1)
             <= Len(pop3_uidl_map)
    /\ pc = "imap_hdr_hashes" =>
          mbox[cur].first_unfound_idx + 1 <= Len(mbox[cur].imap_msg_map)

====
